---- MODULE Spec2Model ----
(***************************************************************************)
(* Command processor of the dialogue engine: the clean-up of the commands  *)
(* detected for a turn, their validation, the override on changed flow     *)
(* definitions, their execution on the tracker in reversed order and the   *)
(* removal of duplicated slot-set events.                                   *)
(* Source: rasa/dialogue_understanding/processor/command_processor.py and  *)
(* rasa/dialogue_understanding/commands/correct_slots_command.py.          *)
(* Flow policy: the flow stack and its serialisation, and the executor     *)
(* that advances the flows of the stack until an action is predicted.      *)
(* Source: rasa/core/policies/flow_policy.py, rasa/shared/core/flows/      *)
(* flow_step.py and the pattern frames of rasa/cdu/patterns.               *)
(***************************************************************************)
EXTENDS Integers, Sequences, FiniteSets, TLC

VARIABLES
    all_flows,       \* the flow library: flow id -> fingerprint, for the flows that exist
    stack,           \* tracker.stack: the dialogue stack, last element = top
    slots,           \* tracker slots: slot name -> value or None
    flow_hashes,     \* tracker slot FLOW_HASHES_SLOT: None or flow id -> fingerprint
    pc,              \* position inside execute_commands
    commands,        \* the raw commands of the turn (get_commands_from_tracker)
    slots_so_far,    \* result of filled_slots_for_active_flow for the turn
    clean_commands,  \* the list built by clean_up_commands
    reversed_commands, \* the commands to execute, in the order they are run
    idx,             \* loop index of the running for-loop (1-based)
    original_tracker, \* tracker.copy() at the start: its stack, slots and flow hashes
    overridden,      \* TRUE when the commands were replaced by HandleCodeChange
    events,          \* the events accumulated by execute_commands
    executed,        \* the commands run on the tracker so far, in the order run
    returned,        \* the value returned by execute_commands
    error,           \* the exception that ended the turn, or None
    frames,          \* a stack of frames to be serialised: FlowStack.frames
    serialized,      \* its as_dict(), or None before it is taken
    deserialized,    \* from_dict() of that, or None before it is taken
    tracker,         \* the tracker the flow policy is called with
    flow_stack,      \* FlowExecutor.flow_stack: the frames, last element = top
    loop_tracker,    \* the copy of the tracker _select_next_action works on
    predicted_action, \* the ActionPrediction of the executor so far
    epc,             \* position inside FlowExecutor.advance_flows
    selection        \* the latest branch resolution: its step, slots and result

turn_vars == <<all_flows, stack, slots, flow_hashes, pc, commands, slots_so_far,
               clean_commands, reversed_commands, idx, original_tracker, overridden,
               events, executed, returned, error>>

stack_vars == <<frames, serialized, deserialized>>

policy_vars == <<tracker, flow_stack, loop_tracker, predicted_action, epc, selection>>

vars == <<turn_vars, stack_vars, policy_vars>>

None == "None"

(***************************************************************************)
(* Bounds of the model.                                                    *)
(***************************************************************************)
MaxRaw == 3      \* longest raw command list drawn for the clean-up alone
MaxCmds == 2     \* longest raw command list of a whole turn
MaxEvents == 4   \* longest event list drawn for remove_duplicated_set_slots

SlotNames == {"x", "y"}
Values == {"v1", "v2"}

(***************************************************************************)
(* Sequence helpers.                                                       *)
(***************************************************************************)
Reverse(s) == [i \in 1..Len(s) |-> s[Len(s) + 1 - i]]

RECURSIVE SeqsUpTo(_, _)
SeqsUpTo(S, n) ==
    IF n = 0 THEN {<<>>}
    ELSE LET shorter == SeqsUpTo(S, n - 1)
         IN  shorter \cup {Append(s, e) : s \in {t \in shorter : Len(t) = n - 1}, e \in S}

\* python list.insert(0, e)
InsertFront(s, e) == <<e>> \o s

\* python list.insert(index, e) for 0 <= index <= len(s)
InsertAt(s, index, e) == SubSeq(s, 1, index) \o <<e>> \o SubSeq(s, index + 1, Len(s))

EmptyDict == [n \in {} |-> None]

(***************************************************************************)
(* Commands. A command is a record; `id` stands for the identity of the    *)
(* python object (the position of the command in the raw list, 0 for a     *)
(* command created by the clean-up or the override).                        *)
(***************************************************************************)
Command(type, id, flow, name, value, corrected_slots) ==
    [type |-> type, id |-> id, flow |-> flow, name |-> name, value |-> value,
     corrected_slots |-> corrected_slots]

StartFlowCommand(flow) == Command("StartFlow", 0, flow, None, None, <<>>)
CancelFlowCommand == Command("CancelFlow", 0, None, None, None, <<>>)
SetSlotCommand(name, value) == Command("SetSlot", 0, None, name, value, <<>>)
ClarifyCommand == Command("Clarify", 0, None, None, None, <<>>)
FreeFormAnswerCommand == Command("FreeFormAnswer", 0, None, None, None, <<>>)
HandleCodeChangeCommand == Command("HandleCodeChange", 0, None, None, None, <<>>)

\* `src` is the id of the SetSlot command the entry was made from (0: none)
CorrectedSlot(name, value, src) == [name |-> name, value |-> value, src |-> src]
CorrectSlotsCommand(corrected_slots) ==
    Command("CorrectSlots", 0, None, None, None, corrected_slots)

isinstance(command, typ) == command.type = typ

\* the commands as parsed from the message: the i-th one is a distinct object
WithIds(cmds) == [i \in 1..Len(cmds) |-> [cmds[i] EXCEPT !.id = i]]

\* python dataclass equality of two command lists (field by field, no identity)
Plain(cmds) == [i \in 1..Len(cmds) |-> [cmds[i] EXCEPT !.id = 0]]

contains_command(cmds, typ) == \E i \in 1..Len(cmds) : isinstance(cmds[i], typ)

CountOf(cmds, typ) == Cardinality({i \in 1..Len(cmds) : isinstance(cmds[i], typ)})

RECURSIVE FilterType(_, _)
FilterType(cmds, typ) ==
    IF cmds = <<>> THEN <<>>
    ELSE IF isinstance(Head(cmds), typ)
         THEN <<Head(cmds)>> \o FilterType(Tail(cmds), typ)
         ELSE FilterType(Tail(cmds), typ)

(***************************************************************************)
(* The flow library. The steps of a flow are fixed per flow id; what a     *)
(* deployment changes is which flows exist and their fingerprints.         *)
(***************************************************************************)
START_STEP == "START"
END_STEP == "END"
CONTINUE_STEP_PREFIX == "NEXT:"
FLOW_PATTERN_CORRECTION_ID == "pattern_correction"
FLOW_PATTERN_COLLECT_INFORMATION == "pattern_collect_information"
FLOW_PATTERN_CODE_CHANGE_ID == "pattern_code_change"
FLOW_PATTERN_CANCEL_ID == "pattern_cancel_flow"
FLOW_PATTERN_CLARIFICATION == "pattern_clarification"

UserFlowIds == {"A", "B"}
PatternFlowIds == {FLOW_PATTERN_CORRECTION_ID, FLOW_PATTERN_COLLECT_INFORMATION,
                   FLOW_PATTERN_CODE_CHANGE_ID, FLOW_PATTERN_CANCEL_ID,
                   FLOW_PATTERN_CLARIFICATION}
Fingerprints == {"h1", "h2"}

Step(id, kind, collect, ask_before_filling) ==
    [id |-> id, kind |-> kind, collect |-> collect,
     ask_before_filling |-> ask_before_filling]

NoStep == Step(None, None, None, FALSE)

CollectInformationFlowStep(id, collect, ask_before_filling) ==
    Step(id, "collect", collect, ask_before_filling)

\* ContinueFlowStep.continue_step_for_id(END_STEP)
ContinueAtEnd == "NEXT:END"

\* the steps of each flow, in the order they are executed
FlowSteps(flow_id) ==
    CASE flow_id = "A" ->
            <<Step(START_STEP, "start", None, FALSE),
              CollectInformationFlowStep("ask_x", "x", FALSE),
              Step("act", "action", None, FALSE),
              Step(END_STEP, "end", None, FALSE)>>
      [] flow_id = "B" ->
            <<Step(START_STEP, "start", None, FALSE),
              CollectInformationFlowStep("ask_y", "y", TRUE),
              Step(END_STEP, "end", None, FALSE)>>
      [] flow_id = "C" ->
            <<Step(START_STEP, "start", None, FALSE),
              CollectInformationFlowStep("ask_x", "x", FALSE),
              CollectInformationFlowStep("ask_y", "y", FALSE),
              Step("act", "action", None, FALSE),
              Step(END_STEP, "end", None, FALSE)>>
      [] OTHER ->
            <<Step(START_STEP, "start", None, FALSE),
              Step("act", "action", None, FALSE),
              Step(END_STEP, "end", None, FALSE)>>

flow_ids(flows) == DOMAIN flows

\* Flow.step_by_id: the step of that id, the continue step for a NEXT: id, or nothing
step_by_id(flow_id, step_id) ==
    IF step_id = ContinueAtEnd THEN Step(ContinueAtEnd, "continue", None, FALSE)
    ELSE IF \E i \in 1..Len(FlowSteps(flow_id)) : FlowSteps(flow_id)[i].id = step_id
         THEN FlowSteps(flow_id)[CHOOSE i \in 1..Len(FlowSteps(flow_id)) :
                                     FlowSteps(flow_id)[i].id = step_id]
         ELSE NoStep

(***************************************************************************)
(* Dialogue stack frames.                                                  *)
(***************************************************************************)
Frame(type, frame_id, flow_id, step_id, frame_type, corrected_slots, is_reset_only, reset_flow_id, reset_step_id) ==
    [type |-> type, frame_id |-> frame_id, flow_id |-> flow_id, step_id |-> step_id,
     frame_type |-> frame_type, corrected_slots |-> corrected_slots,
     is_reset_only |-> is_reset_only, reset_flow_id |-> reset_flow_id,
     reset_step_id |-> reset_step_id]

UserFlowStackFrame(frame_id, flow_id, step_id, frame_type) ==
    Frame("flow", frame_id, flow_id, step_id, frame_type, EmptyDict, FALSE, None, None)

PatternFlowStackFrame(type, frame_id, step_id) ==
    Frame(type, frame_id, type, step_id, None, EmptyDict, FALSE, None, None)

CollectInformationPatternFlowStackFrame(frame_id) ==
    PatternFlowStackFrame(FLOW_PATTERN_COLLECT_INFORMATION, frame_id, START_STEP)

CorrectionPatternFlowStackFrame(frame_id, step_id, is_reset_only, corrected_slots, reset_flow_id, reset_step_id) ==
    Frame(FLOW_PATTERN_CORRECTION_ID, frame_id, FLOW_PATTERN_CORRECTION_ID, step_id,
          None, corrected_slots, is_reset_only, reset_flow_id, reset_step_id)

\* a frame that belongs to no flow (chitchat, search)
ChitChatStackFrame(frame_id) ==
    Frame("chitchat", frame_id, None, None, None, EmptyDict, FALSE, None, None)

\* the parts of a DialogueStateTracker the command processor reads and writes
Tracker(dialogue_stack, slot_values, stored_fingerprints) ==
    [stack |-> dialogue_stack, slots |-> slot_values, flow_hashes |-> stored_fingerprints]

NoFrame == Frame(None, 0, None, None, None, EmptyDict, FALSE, None, None)

IsBaseFlowStackFrame(frame) == frame.type \in {"flow"} \cup PatternFlowIds

IsCorrectionFrame(frame) == frame.type = FLOW_PATTERN_CORRECTION_ID

IsCollectInformationFrame(frame) == frame.type = FLOW_PATTERN_COLLECT_INFORMATION

\* DialogueStack.top
top(dialogue_stack) ==
    IF dialogue_stack = <<>> THEN NoFrame ELSE dialogue_stack[Len(dialogue_stack)]

\* stack.utils.top_flow_frame: the topmost flow frame, collect-information
\* pattern frames skipped
top_flow_frame(dialogue_stack) ==
    LET idxs == {i \in 1..Len(dialogue_stack) :
                    /\ IsBaseFlowStackFrame(dialogue_stack[i])
                    /\ ~IsCollectInformationFrame(dialogue_stack[i])}
    IN  IF idxs = {} THEN NoFrame
        ELSE dialogue_stack[CHOOSE i \in idxs : \A j \in idxs : j <= i]

\* stack.utils.top_user_flow_frame: the topmost user flow frame
top_user_flow_frame(dialogue_stack) ==
    LET idxs == {i \in 1..Len(dialogue_stack) : dialogue_stack[i].type = "flow"}
    IN  IF idxs = {} THEN NoFrame
        ELSE dialogue_stack[CHOOSE i \in idxs : \A j \in idxs : j <= i]

\* BaseFlowStackFrame.step: the step the frame points at; raises when the flow
\* or the step does not exist
frame_step(frame, flows) ==
    IF frame.flow_id \notin flow_ids(flows)
    THEN [exc |-> "InvalidFlowIdException", step |-> NoStep]
    ELSE IF step_by_id(frame.flow_id, frame.step_id) = NoStep
         THEN [exc |-> "InvalidFlowStepIdException", step |-> NoStep]
         ELSE [exc |-> None, step |-> step_by_id(frame.flow_id, frame.step_id)]

(***************************************************************************)
(* get_current_collect_step: the collect step the conversation is in, or   *)
(* none. Result: [exc, step], step = NoStep for python's None.             *)
(***************************************************************************)
get_current_collect_step(dialogue_stack, flows) ==
    IF dialogue_stack = <<>> THEN [exc |-> None, step |-> NoStep]
    ELSE IF ~IsCollectInformationFrame(top(dialogue_stack))
    THEN [exc |-> None, step |-> NoStep]
    ELSE IF Len(dialogue_stack) <= 1 THEN [exc |-> None, step |-> NoStep]
    ELSE LET frame_that_triggered_collect_infos == dialogue_stack[Len(dialogue_stack) - 1]
         IN  IF ~IsBaseFlowStackFrame(frame_that_triggered_collect_infos)
             THEN [exc |-> None, step |-> NoStep]
             ELSE LET res == frame_step(frame_that_triggered_collect_infos, flows)
                  IN  IF res.exc # None THEN res
                      ELSE IF res.step.kind = "collect" THEN res
                      ELSE [exc |-> None, step |-> NoStep]

(***************************************************************************)
(* clean_up_slot_command: the clean list after one SetSlot command.        *)
(* Result: [exc, commands].                                                *)
(***************************************************************************)
\* the corrected_slots of the top flow frame when it is a correction frame
already_corrected_slots(dialogue_stack) ==
    IF IsCorrectionFrame(top_flow_frame(dialogue_stack))
    THEN top_flow_frame(dialogue_stack).corrected_slots
    ELSE EmptyDict

\* variant: any active collect step makes the command an answer
is_collect_active(command, current_collect_info) ==
    current_collect_info # NoStep

\* "not a correction but rather an answer to the current collect info"
is_answer_to_current_collect(command, current_collect_info) ==
    /\ current_collect_info # NoStep
    /\ current_collect_info.collect = command.name

\* variant: the slot was previously corrected, to another value
is_slot_corrected_to_other_value(command, already) ==
    /\ command.name \in DOMAIN already
    /\ already[command.name] # command.value

\* the slot was previously corrected to the same value
is_slot_already_corrected(command, already) ==
    /\ command.name \in DOMAIN already
    /\ already[command.name] = command.value

\* variant: the corrected slot replaces the entries of the same slot
group_correction_replacing(resulting_commands, corrected_slot) ==
    LET others(entries) ==
            SelectSeq(entries, LAMBDA e : e.name # corrected_slot.name)
    IN  IF contains_command(resulting_commands, "CorrectSlots")
        THEN LET first == CHOOSE i \in 1..Len(resulting_commands) :
                            /\ isinstance(resulting_commands[i], "CorrectSlots")
                            /\ \A j \in 1..(i - 1) :
                                    ~isinstance(resulting_commands[j], "CorrectSlots")
             IN  [resulting_commands EXCEPT
                     ![first].corrected_slots = Append(others(@), corrected_slot)]
        ELSE Append(resulting_commands, CorrectSlotsCommand(<<corrected_slot>>))

\* "Group all corrections into one command": append the corrected slot to the
\* first CorrectSlots command of the list, or add a new CorrectSlots command
group_correction(resulting_commands, corrected_slot) ==
    IF contains_command(resulting_commands, "CorrectSlots")
    THEN LET first == CHOOSE i \in 1..Len(resulting_commands) :
                        /\ isinstance(resulting_commands[i], "CorrectSlots")
                        /\ \A j \in 1..(i - 1) :
                                ~isinstance(resulting_commands[j], "CorrectSlots")
         IN  [resulting_commands EXCEPT
                 ![first].corrected_slots = Append(@, corrected_slot)]
    ELSE Append(resulting_commands, CorrectSlotsCommand(<<corrected_slot>>))

clean_up_slot_command(commands_so_far, command, dialogue_stack, flows, filled) ==
    IF command.name \in filled
    THEN LET current_collect_info == get_current_collect_step(dialogue_stack, flows)
             already == already_corrected_slots(dialogue_stack)
             corrected_slot == CorrectedSlot(command.name, command.value, command.id)
         IN  IF current_collect_info.exc # None
             THEN [exc |-> current_collect_info.exc, commands |-> commands_so_far]
             ELSE IF is_answer_to_current_collect(command, current_collect_info.step)
             THEN [exc |-> None, commands |-> Append(commands_so_far, command)]
             ELSE IF is_slot_already_corrected(command, already)
             THEN [exc |-> None, commands |-> commands_so_far]
             ELSE [exc |-> None,
                   commands |-> group_correction(commands_so_far, corrected_slot)]
    ELSE [exc |-> None, commands |-> Append(commands_so_far, command)]

(***************************************************************************)
(* One iteration of the for-loop of clean_up_commands, on `command`, with  *)
(* `raw` the whole raw list. Result: [exc, commands].                      *)
(***************************************************************************)
\* a CancelFlow command is skipped when the clean list already holds one
skip_cancel_flow(clean, command) ==
    isinstance(command, "CancelFlow") /\ contains_command(clean, "CancelFlow")

\* variant: the free form answer is put at the end of the clean list
append_free_form_answer(clean, command) == Append(clean, command)

\* the free form answer is put in front of the clean list
prepend_free_form_answer(clean, command) == InsertFront(clean, command)

\* variant: of a turn of clarify commands only, every one is added
keep_every_clarify(raw, clean) ==
    \A i \in 1..Len(raw) : isinstance(raw[i], "Clarify")

\* of a turn of clarify commands only, the first one is added
keep_clarify(raw, clean) ==
    /\ \A i \in 1..Len(raw) : isinstance(raw[i], "Clarify")
    /\ Len(clean) = 0

clean_up_command(clean, command, raw, dialogue_stack, flows, filled) ==
    IF isinstance(command, "SetSlot")
    THEN clean_up_slot_command(clean, command, dialogue_stack, flows, filled)
    ELSE IF skip_cancel_flow(clean, command)
    THEN [exc |-> None, commands |-> clean]
    ELSE IF isinstance(command, "FreeFormAnswer")
    THEN [exc |-> None, commands |-> prepend_free_form_answer(clean, command)]
    ELSE IF isinstance(command, "Clarify") /\ Len(raw) > 1
    THEN IF keep_clarify(raw, clean)
         THEN [exc |-> None, commands |-> Append(clean, command)]
         ELSE [exc |-> None, commands |-> clean]
    ELSE [exc |-> None, commands |-> Append(clean, command)]

\* clean_up_commands as a whole: the fold of the loop over the raw list
RECURSIVE CleanFrom(_, _, _, _, _, _)
CleanFrom(clean, i, raw, dialogue_stack, flows, filled) ==
    IF i > Len(raw) THEN [exc |-> None, commands |-> clean]
    ELSE LET r == clean_up_command(clean, raw[i], raw, dialogue_stack, flows, filled)
         IN  IF r.exc # None THEN r
             ELSE CleanFrom(r.commands, i + 1, raw, dialogue_stack, flows, filled)

clean_up_commands(raw, dialogue_stack, flows, filled) ==
    CleanFrom(<<>>, 1, raw, dialogue_stack, flows, filled)

\* variant: the number of CorrectSlots commands is not looked at
validate_cancel_and_free_form_only(cmds) ==
    LET free_form_answer_commands == FilterType(cmds, "FreeFormAnswer")
    IN  IF CountOf(cmds, "CancelFlow") > 1
        THEN "ValueError: There can only be one cancel flow command."
        ELSE IF Plain(free_form_answer_commands)
                    # Plain(SubSeq(cmds, 1, Len(free_form_answer_commands)))
        THEN "ValueError: Free form answer commands must be at start of the predicted command list."
        ELSE None

(***************************************************************************)
(* validate_state_of_commands: None, or the ValueError it raises.          *)
(***************************************************************************)
validate_state_of_commands(cmds) ==
    LET free_form_answer_commands == FilterType(cmds, "FreeFormAnswer")
    IN  IF CountOf(cmds, "CancelFlow") > 1
        THEN "ValueError: There can only be one cancel flow command."
        ELSE IF Plain(free_form_answer_commands)
                    # Plain(SubSeq(cmds, 1, Len(free_form_answer_commands)))
        THEN "ValueError: Free form answer commands must be at start of the predicted command list."
        ELSE IF CountOf(cmds, "CorrectSlots") > 1
        THEN "ValueError: There can only be one correct slots command."
        ELSE None

\* nothing is being serialised
StackIdle ==
    /\ frames = <<>>
    /\ serialized = <<>>
    /\ deserialized = <<>>

\* the flow policy is not called
PolicyIdle ==
    /\ tracker = None
    /\ flow_stack = <<>>
    /\ loop_tracker = None
    /\ predicted_action = None
    /\ epc = "idle"
    /\ selection = None

(***************************************************************************)
(* The for-loop of clean_up_commands (command_processor.py 329-361), one   *)
(* raw command per step. An exception raised by a step ends the turn.      *)
(***************************************************************************)
CleanStep ==
    /\ pc = "clean"
    /\ idx <= Len(commands)
    /\ LET r == clean_up_command(clean_commands, commands[idx], commands, stack,
                                 all_flows, slots_so_far)
       IN  IF r.exc # None
           THEN /\ pc' = "raised"
                /\ error' = r.exc
                /\ UNCHANGED <<clean_commands, idx>>
           ELSE /\ clean_commands' = r.commands
                /\ idx' = idx + 1
                /\ UNCHANGED <<pc, error>>
    /\ UNCHANGED <<all_flows, stack, slots, flow_hashes, commands, slots_so_far,
                   reversed_commands, original_tracker, overridden, events, executed,
                   returned>>
    /\ UNCHANGED <<stack_vars, policy_vars>>

\* the loop of clean_up_commands has run to its end
CleanFinished == pc = "clean" /\ idx > Len(commands)

(***************************************************************************)
(* Specification of the clean-up alone: every raw list up to MaxRaw over   *)
(* CleanAlphabet, on every stack of CleanStacks and every set of filled    *)
(* slots of CleanFilled.                                                   *)
(***************************************************************************)
FullLibrary == [f \in UserFlowIds \cup PatternFlowIds |-> "h1"]

NoSlots == [n \in SlotNames |-> None]

CleanAlphabet ==
    {SetSlotCommand("x", "v1"), SetSlotCommand("x", "v2"), SetSlotCommand("y", "v1"),
     CancelFlowCommand, FreeFormAnswerCommand, ClarifyCommand,
     CorrectSlotsCommand(<<CorrectedSlot("y", "v2", 0)>>)}

PendingX == [n \in {"x"} |-> "v1"]

CleanStacks ==
    {<<>>,
     <<UserFlowStackFrame(1, "A", "act", "regular")>>,
     <<UserFlowStackFrame(1, "A", "ask_x", "regular"),
       CollectInformationPatternFlowStackFrame(2)>>,
     <<UserFlowStackFrame(1, "A", "act", "regular"),
       CorrectionPatternFlowStackFrame(2, "act", FALSE, PendingX, "A", "ask_x")>>,
     <<CorrectionPatternFlowStackFrame(1, "act", FALSE, PendingX, "A", "ask_x"),
       CollectInformationPatternFlowStackFrame(2)>>,
     <<ChitChatStackFrame(1), CollectInformationPatternFlowStackFrame(2)>>}

CleanFilled == {{}, {"x"}, {"x", "y"}}

InitClean ==
    /\ StackIdle
    /\ PolicyIdle
    /\ all_flows = FullLibrary
    /\ stack \in CleanStacks
    /\ slots = NoSlots
    /\ flow_hashes = FullLibrary
    /\ pc = "clean"
    /\ commands \in {WithIds(raw) : raw \in SeqsUpTo(CleanAlphabet, MaxRaw)}
    /\ slots_so_far \in CleanFilled
    /\ clean_commands = <<>>
    /\ reversed_commands = <<>>
    /\ idx = 1
    /\ original_tracker = Tracker(stack, slots, flow_hashes)
    /\ overridden = FALSE
    /\ events = <<>>
    /\ executed = <<>>
    /\ returned = <<>>
    /\ error = None

NextClean == CleanStep

SpecClean == InitClean /\ [][NextClean]_vars

(***************************************************************************)
(* Claims about the clean-up (checked under SpecClean).                    *)
(***************************************************************************)
\* the ids of the commands of a list, in order
Ids(cmds) == [i \in 1..Len(cmds) |-> cmds[i].id]

\* the raw commands the loop has processed so far
Processed == SubSeq(commands, 1, idx - 1)

\* the free form answers of a list are a prefix of it
FreeFormPrefix(cmds) ==
    \A i, j \in 1..Len(cmds) :
        (i < j /\ isinstance(cmds[j], "FreeFormAnswer"))
            => isinstance(cmds[i], "FreeFormAnswer")

\* the entries of all CorrectSlots commands of a list that were made from the
\* SetSlot command of identity `src`
EntriesFrom(cmds, src) ==
    {<<k, e>> \in (1..Len(cmds)) \X (1..MaxRaw + 1) :
        /\ isinstance(cmds[k], "CorrectSlots")
        /\ e <= Len(cmds[k].corrected_slots)
        /\ cmds[k].corrected_slots[e].src = src}

\* the top frame is a collect-information frame and the flow frame below it
\* points at a collect step that asks for `name`
ActiveCollectAsksFor(name) ==
    /\ Len(stack) >= 2
    /\ stack[Len(stack)].type = FLOW_PATTERN_COLLECT_INFORMATION
    /\ stack[Len(stack) - 1].flow_id \in DOMAIN all_flows
    /\ \E k \in 1..Len(FlowSteps(stack[Len(stack) - 1].flow_id)) :
          LET s == FlowSteps(stack[Len(stack) - 1].flow_id)[k]
          IN  /\ s.id = stack[Len(stack) - 1].step_id
              /\ s.kind = "collect"
              /\ s.collect = name

\* the correction frame that is the top flow frame already corrects `name` to `value`
PendingCorrection(name, value) ==
    /\ top_flow_frame(stack).type = FLOW_PATTERN_CORRECTION_ID
    /\ name \in DOMAIN top_flow_frame(stack).corrected_slots
    /\ top_flow_frame(stack).corrected_slots[name] = value

\* C1 (as claimed): for every raw list, stack and set of filled slots the cleaned
\* list holds at most one CancelFlow and at most one CorrectSlots command, its
\* free form answers are a prefix, and validate_state_of_commands accepts it.
C1_CleanedListIsValid ==
    CleanFinished =>
        /\ CountOf(clean_commands, "CancelFlow") <= 1
        /\ CountOf(clean_commands, "CorrectSlots") <= 1
        /\ FreeFormPrefix(clean_commands)
        /\ validate_state_of_commands(clean_commands) = None

\* C2 (as claimed): the free form answers are moved to the front of the cleaned
\* list and keep the relative order they have in the raw list.
C2_FreeFormOrderKept ==
    CleanFinished =>
        /\ FreeFormPrefix(clean_commands)
        /\ Ids(FilterType(clean_commands, "FreeFormAnswer"))
               = Ids(FilterType(commands, "FreeFormAnswer"))

\* C2 (amended): every free form answer of the raw list is moved to the front of
\* the cleaned list, where the free form answers appear in the REVERSE of their
\* relative order in the raw list (each one is inserted at position 0).
C2_FreeFormFrontReversed ==
    pc = "clean" =>
        /\ FreeFormPrefix(clean_commands)
        /\ Ids(FilterType(clean_commands, "FreeFormAnswer"))
               = Reverse(Ids(FilterType(Processed, "FreeFormAnswer")))
        /\ \A i \in 1..Len(Processed) :
              isinstance(Processed[i], "FreeFormAnswer")
                  => \E k \in 1..Len(clean_commands) : clean_commands[k] = Processed[i]

C2_Witness ==
    /\ CleanFinished
    /\ \E i, j, k \in 1..Len(commands) :
          /\ i < j /\ j < k
          /\ ~isinstance(commands[i], "FreeFormAnswer")
          /\ isinstance(commands[j], "FreeFormAnswer")
          /\ isinstance(commands[k], "FreeFormAnswer")

\* two SetSlot commands i < j of the raw list for the same filled slot with
\* different values, the slot not being the one the active collect step asks for
TwoCorrections(i, j) ==
    /\ i < j
    /\ isinstance(commands[i], "SetSlot") /\ isinstance(commands[j], "SetSlot")
    /\ commands[i].name = commands[j].name
    /\ commands[i].value # commands[j].value
    /\ commands[i].name \in slots_so_far
    /\ ~ActiveCollectAsksFor(commands[i].name)

\* C3 (as claimed): two SetSlot commands for the same filled slot with different
\* values give exactly one CorrectSlots command, which has an entry for the later
\* value and no entry for the earlier value.
C3_OnlyLaterValue ==
    CleanFinished =>
        \A i, j \in 1..Len(commands) :
            TwoCorrections(i, j) =>
                /\ CountOf(clean_commands, "CorrectSlots") = 1
                /\ \A k \in 1..Len(clean_commands) :
                      isinstance(clean_commands[k], "CorrectSlots") =>
                          /\ \E e \in 1..Len(clean_commands[k].corrected_slots) :
                                /\ clean_commands[k].corrected_slots[e].name
                                       = commands[j].name
                                /\ clean_commands[k].corrected_slots[e].value
                                       = commands[j].value
                          /\ \A e \in 1..Len(clean_commands[k].corrected_slots) :
                                ~(/\ clean_commands[k].corrected_slots[e].name
                                         = commands[i].name
                                  /\ clean_commands[k].corrected_slots[e].value
                                         = commands[i].value)

\* the position of the first CorrectSlots command of the cleaned list (0: none)
FirstCorrectSlots ==
    IF contains_command(clean_commands, "CorrectSlots")
    THEN CHOOSE k \in 1..Len(clean_commands) :
            /\ isinstance(clean_commands[k], "CorrectSlots")
            /\ \A m \in 1..(k - 1) : ~isinstance(clean_commands[m], "CorrectSlots")
    ELSE 0

\* C3 (amended): two SetSlot commands for the same filled slot with different
\* values are grouped into the first CorrectSlots command of the cleaned list (the
\* only one when the raw list holds no CorrectSlots command): it holds one entry
\* for EACH of the two values, earlier value first and later value last, except
\* for a value that equals the pending correction of the slot, which is dropped.
C3_BothValuesGrouped ==
    CleanFinished =>
        \A i, j \in 1..Len(commands) :
            TwoCorrections(i, j) =>
                /\ FirstCorrectSlots # 0
                /\ CountOf(commands, "CorrectSlots") = 0
                      => CountOf(clean_commands, "CorrectSlots") = 1
                /\ \A m \in {i, j} :
                      LET made == EntriesFrom(clean_commands, commands[m].id)
                      IN  IF PendingCorrection(commands[m].name, commands[m].value)
                          THEN made = {}
                          ELSE /\ Cardinality(made) = 1
                               /\ \A ke \in made :
                                     /\ ke[1] = FirstCorrectSlots
                                     /\ clean_commands[ke[1]].corrected_slots[ke[2]]
                                          = CorrectedSlot(commands[m].name,
                                                          commands[m].value,
                                                          commands[m].id)
                /\ \A a \in EntriesFrom(clean_commands, commands[i].id),
                      b \in EntriesFrom(clean_commands, commands[j].id) : a[2] < b[2]

C3_Witness ==
    /\ CleanFinished
    /\ \E i, j \in 1..Len(commands) :
          /\ TwoCorrections(i, j)
          /\ EntriesFrom(clean_commands, commands[i].id) # {}
          /\ EntriesFrom(clean_commands, commands[j].id) # {}

\* C4: a processed SetSlot command is in the clean list, unchanged, exactly when
\* its slot is not among the filled slots or the active collect step asks for
\* that slot; the clean list holds no other SetSlot command.
C4_SetSlotPassThrough ==
    pc = "clean" =>
        /\ \A i \in 1..Len(Processed) :
              isinstance(Processed[i], "SetSlot") =>
                  ((\E k \in 1..Len(clean_commands) : clean_commands[k] = Processed[i])
                      <=> (\/ Processed[i].name \notin slots_so_far
                           \/ ActiveCollectAsksFor(Processed[i].name)))
        /\ \A k \in 1..Len(clean_commands) :
              isinstance(clean_commands[k], "SetSlot") =>
                  \E i \in 1..Len(Processed) : Processed[i] = clean_commands[k]

C4_Witness ==
    /\ CleanFinished
    /\ \E i, j \in 1..Len(commands) :
          /\ isinstance(commands[i], "SetSlot")
          /\ commands[i].name \in slots_so_far
          /\ ActiveCollectAsksFor(commands[i].name)
          /\ \E k \in 1..Len(clean_commands) : clean_commands[k] = commands[i]
          /\ isinstance(commands[j], "SetSlot")
          /\ commands[j].name \in slots_so_far
          /\ ~ActiveCollectAsksFor(commands[j].name)

\* C5: a processed SetSlot command on a filled slot whose value equals the pending
\* correction of that slot is dropped: the clean list holds neither the command
\* nor any CorrectSlots entry made from it.
C5_PendingCorrectionDropped ==
    pc = "clean" =>
        \A i \in 1..Len(Processed) :
            (/\ isinstance(Processed[i], "SetSlot")
             /\ Processed[i].name \in slots_so_far
             /\ PendingCorrection(Processed[i].name, Processed[i].value))
                => /\ \A k \in 1..Len(clean_commands) :
                         clean_commands[k].id # Processed[i].id
                   /\ EntriesFrom(clean_commands, Processed[i].id) = {}

C5_Witness ==
    /\ CleanFinished
    /\ \E i, j \in 1..Len(commands) :
          /\ i # j
          /\ isinstance(commands[i], "SetSlot")
          /\ commands[i].name \in slots_so_far
          /\ PendingCorrection(commands[i].name, commands[i].value)
          /\ commands[j] = [commands[i] EXCEPT !.id = j]

\* all commands of the raw list are Clarify commands
AllClarify == \A i \in 1..Len(commands) : isinstance(commands[i], "Clarify")

\* C6: with more than one raw command every Clarify command is dropped, unless all
\* raw commands are Clarify commands, when exactly the first one survives; a
\* Clarify command that is the only command of the turn is kept.
C6_ClarifyDropped ==
    CleanFinished =>
        /\ (Len(commands) > 1 /\ ~AllClarify)
              => CountOf(clean_commands, "Clarify") = 0
        /\ (Len(commands) > 1 /\ AllClarify) => clean_commands = <<commands[1]>>
        /\ (Len(commands) = 1 /\ AllClarify) => clean_commands = <<commands[1]>>

C6_Witness ==
    /\ CleanFinished
    /\ Len(commands) > 2
    /\ AllClarify
    /\ clean_commands = <<commands[1]>>

(***************************************************************************)
(* Events. `id` stands for the identity of the event object (its position  *)
(* in a drawn event list, 0 for an event made during a turn).              *)
(***************************************************************************)
FLOW_HASHES_SLOT == "flow_hashes"
DIALOGUE_STACK_SLOT == "dialogue_stack"

SlotSet(key, value) == [type |-> "slot", key |-> key, value |-> value, id |-> 0]
OtherEvent(name) == [type |-> name, key |-> None, value |-> None, id |-> 0]

IsSlotSet(event) == event.type = "slot"

(***************************************************************************)
(* remove_duplicated_set_slots (command_processor.py 216-243).             *)
(***************************************************************************)
\* variant: the events are scanned from the first one to the last one
events_in_given_order(evs) == evs

\* line 232: the events are scanned from the last one to the first one
events_in_scan_order(evs) == Reverse(evs)

\* line 233: the slot of the event is set again by a later event
is_overwritten(event, seen) == IsSlotSet(event) /\ event.key \in seen

\* lines 232-239: the loop; `seen` is slots_so_far, `optimized` is optimized_events
RECURSIVE OptimizeScan(_, _, _)
OptimizeScan(scan, seen, optimized) ==
    IF scan = <<>> THEN optimized
    ELSE LET event == Head(scan)
         IN  IF is_overwritten(event, seen)
             THEN OptimizeScan(Tail(scan), seen, optimized)
             ELSE IF IsSlotSet(event)
             THEN OptimizeScan(Tail(scan), seen \cup {event.key}, Append(optimized, event))
             ELSE OptimizeScan(Tail(scan), seen, Append(optimized, event))

remove_duplicated_set_slots(evs) ==
    Reverse(OptimizeScan(events_in_scan_order(evs), {}, <<>>))

(***************************************************************************)
(* The last step of execute_commands (line 213): the events are returned   *)
(* with the duplicated slot-sets removed.                                  *)
(***************************************************************************)
Return ==
    /\ pc = "run"
    /\ idx > Len(reversed_commands)
    /\ returned' = remove_duplicated_set_slots(events)
    /\ pc' = "done"
    /\ UNCHANGED <<all_flows, stack, slots, flow_hashes, commands, slots_so_far,
                   clean_commands, reversed_commands, idx, original_tracker, overridden,
                   events, executed, error>>
    /\ UNCHANGED <<stack_vars, policy_vars>>

(***************************************************************************)
(* Specification of remove_duplicated_set_slots alone: every event list up *)
(* to MaxEvents over EventAlphabet.                                        *)
(***************************************************************************)
EventAlphabet ==
    {SlotSet("x", "v1"), SlotSet("x", "v2"), SlotSet("y", "v1"),
     OtherEvent("flow_started")}

InitDedup ==
    /\ StackIdle
    /\ PolicyIdle
    /\ all_flows = FullLibrary
    /\ stack = <<>>
    /\ slots = NoSlots
    /\ flow_hashes = FullLibrary
    /\ pc = "run"
    /\ commands = <<>>
    /\ slots_so_far = {}
    /\ clean_commands = <<>>
    /\ reversed_commands = <<>>
    /\ idx = 1
    /\ original_tracker = Tracker(stack, slots, flow_hashes)
    /\ overridden = FALSE
    /\ events \in {WithIds(evs) : evs \in SeqsUpTo(EventAlphabet, MaxEvents)}
    /\ executed = <<>>
    /\ returned = <<>>
    /\ error = None

NextDedup == Return

SpecDedup == InitDedup /\ [][NextDedup]_vars

\* the positions of an event list that remove_duplicated_set_slots is to keep: the
\* events that are no slot-set and, per key, the last slot-set of that key
KeptPositions(evs) ==
    {p \in 1..Len(evs) :
        \/ ~IsSlotSet(evs[p])
        \/ \A q \in (p + 1)..Len(evs) : ~(IsSlotSet(evs[q]) /\ evs[q].key = evs[p].key)}

\* C10: the returned list holds at most one slot-set per key, namely the last one
\* of the input, keeps every event that is no slot-set, keeps the relative order of
\* the kept events, and applying the function again changes nothing.
C10_LastSlotSetWins ==
    pc = "done" =>
        /\ \A i, j \in 1..Len(returned) :
              (i # j /\ IsSlotSet(returned[i]) /\ IsSlotSet(returned[j]))
                  => returned[i].key # returned[j].key
        /\ {returned[i].id : i \in 1..Len(returned)} = KeptPositions(events)
        /\ \A i \in 1..Len(returned) : returned[i] = events[returned[i].id]
        /\ \A i, j \in 1..Len(returned) : i < j => returned[i].id < returned[j].id
        /\ remove_duplicated_set_slots(returned) = returned

C10_Witness ==
    /\ pc = "done"
    /\ \E i, j, k \in 1..Len(events) :
          /\ i < j /\ j < k
          /\ IsSlotSet(events[i]) /\ IsSlotSet(events[k]) /\ ~IsSlotSet(events[j])
          /\ events[i].key = events[k].key
          /\ events[i].value # events[k].value
    /\ Len(returned) < Len(events)

(***************************************************************************)
(* find_updated_flows and calculate_flow_fingerprints                      *)
(* (command_processor.py 129-159). The stored fingerprints are read as     *)
(* `tracker.get_slot(FLOW_HASHES_SLOT) or {}`: an unset slot is the empty  *)
(* dict, which is how flow_hashes holds it.                                *)
(***************************************************************************)
\* variant: a flow without a stored fingerprint counts as changed
is_flow_changed_or_unknown(frame, stored_fingerprints, flows) ==
    \/ frame.flow_id \notin flow_ids(flows)
    \/ frame.flow_id \notin DOMAIN stored_fingerprints
    \/ flows[frame.flow_id] # stored_fingerprints[frame.flow_id]

\* lines 149-152: the flow of the frame is gone, or its fingerprint differs
\* from the one stored for it
is_flow_changed(frame, stored_fingerprints, flows) ==
    \/ frame.flow_id \notin flow_ids(flows)
    \/ /\ frame.flow_id \in DOMAIN stored_fingerprints
       /\ flows[frame.flow_id] # stored_fingerprints[frame.flow_id]

find_updated_flows(dialogue_stack, stored_fingerprints, flows) ==
    {dialogue_stack[i].flow_id : i \in
        {k \in 1..Len(dialogue_stack) :
            /\ IsBaseFlowStackFrame(dialogue_stack[k])
            /\ is_flow_changed(dialogue_stack[k], stored_fingerprints, flows)}}

calculate_flow_fingerprints(flows) == [f \in flow_ids(flows) |-> flows[f]]

\* lines 192-194: the slot-set event of the new hashes, when they changed
flow_hash_events(new_hashes, stored_fingerprints) ==
    IF new_hashes # stored_fingerprints
    THEN <<SlotSet(FLOW_HASHES_SLOT, new_hashes)>>
    ELSE <<>>

(***************************************************************************)
(* CorrectSlotsCommand (correct_slots_command.py).                         *)
(***************************************************************************)
\* Flow.get_collect_steps: the collect steps of a flow
get_collect_steps(flow_id) ==
    {FlowSteps(flow_id)[i] : i \in
        {k \in 1..Len(FlowSteps(flow_id)) : FlowSteps(flow_id)[k].kind = "collect"}}

\* Flow.previous_collect_steps: the collect steps asked up to the step of that id,
\* the most recently asked one first
RECURSIVE CollectsUpTo(_, _)
CollectsUpTo(flow_id, n) ==
    IF n = 0 THEN <<>>
    ELSE IF FlowSteps(flow_id)[n].kind = "collect"
         THEN <<FlowSteps(flow_id)[n]>> \o CollectsUpTo(flow_id, n - 1)
         ELSE CollectsUpTo(flow_id, n - 1)

previous_collect_steps(flow_id, step_id) ==
    LET at == {i \in 1..Len(FlowSteps(flow_id)) : FlowSteps(flow_id)[i].id = step_id}
    IN  IF at = {} THEN <<>> ELSE CollectsUpTo(flow_id, CHOOSE i \in at : TRUE)

\* DialogueStateTracker.get_previously_updated_slots: the slots filled so far
get_previously_updated_slots(slot_values) ==
    {n \in DOMAIN slot_values : slot_values[n] # None}

\* variant: one collect step that passes the test is enough
is_any_slot_reset_only(proposed_slots, flows) ==
    \E flow_id \in flow_ids(flows) :
        \E collect_step \in get_collect_steps(flow_id) :
            \/ collect_step.collect \notin DOMAIN proposed_slots
            \/ collect_step.ask_before_filling

\* lines 66-91
are_all_slots_reset_only(proposed_slots, flows) ==
    \A flow_id \in flow_ids(flows) :
        \A collect_step \in get_collect_steps(flow_id) :
            \/ collect_step.collect \notin DOMAIN proposed_slots
            \/ collect_step.ask_before_filling

\* lines 93-130: NoStep for python's None
RECURSIVE FirstUpdated(_, _, _)
FirstUpdated(steps, updated_slots, previously_updated_slots) ==
    IF steps = <<>> THEN NoStep
    ELSE IF /\ Head(steps).collect \in DOMAIN updated_slots
            /\ Head(steps).collect \in previously_updated_slots
         THEN Head(steps)
         ELSE FirstUpdated(Tail(steps), updated_slots, previously_updated_slots)

\* variant: the asked steps are scanned as listed, the most recently asked first
find_latest_updated_collect_info(user_frame, updated_slots, flows, slot_values) ==
    FirstUpdated(previous_collect_steps(user_frame.flow_id, user_frame.step_id),
                 updated_slots, get_previously_updated_slots(slot_values))

find_earliest_updated_collect_info(user_frame, updated_slots, flows, slot_values) ==
    FirstUpdated(Reverse(previous_collect_steps(user_frame.flow_id, user_frame.step_id)),
                 updated_slots, get_previously_updated_slots(slot_values))

\* lines 132-151: the entries whose value differs from the slot's value, as a
\* dict built in the order of the entries (a later entry of a slot replaces an
\* earlier one)
RECURSIVE ProposedFrom(_, _, _)
ProposedFrom(entries, slot_values, proposed_slots) ==
    IF entries = <<>> THEN proposed_slots
    ELSE LET corrected_slot == Head(entries)
         IN  IF slot_values[corrected_slot.name] # corrected_slot.value
             THEN ProposedFrom(Tail(entries), slot_values,
                     [n \in DOMAIN proposed_slots \cup {corrected_slot.name} |->
                         IF n = corrected_slot.name THEN corrected_slot.value
                         ELSE proposed_slots[n]])
             ELSE ProposedFrom(Tail(entries), slot_values, proposed_slots)

\* variant: every corrected slot is proposed, whatever the slot's value
corrected_slots_dict_unfiltered(command, slot_values) ==
    ProposedFrom(command.corrected_slots, [n \in DOMAIN slot_values |-> "unlike any value"],
                 EmptyDict)

corrected_slots_dict(command, slot_values) ==
    ProposedFrom(command.corrected_slots, slot_values, EmptyDict)

\* a frame id no frame of the stack has
NewFrameId(dialogue_stack) ==
    CHOOSE n \in 1..(Len(dialogue_stack) + 1) :
        \A i \in 1..Len(dialogue_stack) : dialogue_stack[i].frame_id # n

\* variant: the new frame always goes on top of the stack
index_on_top_of_stack(top_frame, dialogue_stack) == Len(dialogue_stack)

\* lines 153-183
index_for_correction_frame(top_frame, dialogue_stack) ==
    IF top_frame.flow_id # FLOW_PATTERN_CORRECTION_ID
    THEN Len(dialogue_stack)
    ELSE (CHOOSE i \in 1..Len(dialogue_stack) :
              /\ dialogue_stack[i].frame_id = top_frame.frame_id
              /\ \A j \in 1..(i - 1) : dialogue_stack[j].frame_id # top_frame.frame_id) - 1

\* lines 185-208
end_previous_correction(top_frame, dialogue_stack) ==
    IF top_frame.flow_id # FLOW_PATTERN_CORRECTION_ID
    THEN dialogue_stack
    ELSE LET last == CHOOSE i \in 1..Len(dialogue_stack) :
                        /\ IsBaseFlowStackFrame(dialogue_stack[i])
                        /\ dialogue_stack[i].frame_id = top_frame.frame_id
                        /\ \A j \in (i + 1)..Len(dialogue_stack) :
                              ~(/\ IsBaseFlowStackFrame(dialogue_stack[j])
                                /\ dialogue_stack[j].frame_id = top_frame.frame_id)
         IN  [i \in 1..Len(dialogue_stack) |->
                 IF i >= last /\ IsBaseFlowStackFrame(dialogue_stack[i])
                 THEN [dialogue_stack[i] EXCEPT !.step_id = ContinueAtEnd]
                 ELSE dialogue_stack[i]]

\* variant: a frame is made for every correction in a user flow
create_correction_frame_always(user_frame, proposed_slots, flows, slot_values, frame_id) ==
    IF user_frame # NoFrame
    THEN CorrectionPatternFlowStackFrame(frame_id, START_STEP,
             are_all_slots_reset_only(proposed_slots, flows), proposed_slots,
             user_frame.flow_id,
             find_earliest_updated_collect_info(user_frame, proposed_slots, flows,
                                                slot_values).id)
    ELSE CorrectionPatternFlowStackFrame(frame_id, START_STEP, FALSE, proposed_slots,
                                         None, None)

\* lines 210-259: NoFrame for python's None
create_correction_frame(user_frame, proposed_slots, flows, slot_values, frame_id) ==
    IF user_frame # NoFrame
    THEN LET is_reset_only == are_all_slots_reset_only(proposed_slots, flows)
             reset_step == find_earliest_updated_collect_info(
                               user_frame, proposed_slots, flows, slot_values)
         IN  IF reset_step = NoStep /\ ~is_reset_only
             THEN NoFrame
             ELSE CorrectionPatternFlowStackFrame(frame_id, START_STEP, is_reset_only,
                      proposed_slots, user_frame.flow_id, reset_step.id)
    ELSE CorrectionPatternFlowStackFrame(frame_id, START_STEP, FALSE, proposed_slots,
                                         None, None)

\* DialogueStateTracker.create_stack_updated_events
create_stack_updated_events(dialogue_stack) ==
    <<SlotSet(DIALOGUE_STACK_SLOT, dialogue_stack)>>

\* the result of running a command: the tracker's stack and slots as updated by
\* the events of the command, and these events
Ran(dialogue_stack, slot_values, new_events) ==
    [stack |-> dialogue_stack, slots |-> slot_values, events |-> new_events]

\* lines 261-303
run_correct_slots(command, dialogue_stack, slot_values, flows) ==
    LET user_frame == top_user_flow_frame(dialogue_stack)
        top_frame == top_flow_frame(dialogue_stack)
        proposed_slots == corrected_slots_dict(command, slot_values)
        correction_frame == create_correction_frame(user_frame, proposed_slots, flows,
                                slot_values, NewFrameId(dialogue_stack))
        insertion_index == index_for_correction_frame(top_frame, dialogue_stack)
        new_stack == InsertAt(end_previous_correction(top_frame, dialogue_stack),
                              insertion_index, correction_frame)
    IN  IF top_frame = NoFrame THEN Ran(dialogue_stack, slot_values, <<>>)
        ELSE IF correction_frame = NoFrame THEN Ran(dialogue_stack, slot_values, <<>>)
        ELSE Ran(new_stack, slot_values, create_stack_updated_events(new_stack))

(***************************************************************************)
(* The other commands: each pushes its frame on the stack or sets its      *)
(* slot, and returns the events that say so.                                *)
(***************************************************************************)
push_frame(dialogue_stack, slot_values, frame) ==
    Ran(Append(dialogue_stack, frame), slot_values,
        create_stack_updated_events(Append(dialogue_stack, frame)))

run_start_flow(command, dialogue_stack, slot_values) ==
    push_frame(dialogue_stack, slot_values,
        UserFlowStackFrame(NewFrameId(dialogue_stack), command.flow, START_STEP,
            IF top_user_flow_frame(dialogue_stack) = NoFrame
            THEN "regular" ELSE "interrupt"))

run_set_slot(command, dialogue_stack, slot_values) ==
    Ran(dialogue_stack, [slot_values EXCEPT ![command.name] = command.value],
        <<SlotSet(command.name, command.value)>>)

run_free_form_answer(command, dialogue_stack, slot_values) ==
    push_frame(dialogue_stack, slot_values, ChitChatStackFrame(NewFrameId(dialogue_stack)))

run_handle_code_change(command, dialogue_stack, slot_values) ==
    push_frame(dialogue_stack, slot_values,
        PatternFlowStackFrame(FLOW_PATTERN_CODE_CHANGE_ID, NewFrameId(dialogue_stack),
                              START_STEP))

run_cancel_flow(command, dialogue_stack, slot_values) ==
    IF top_user_flow_frame(dialogue_stack) = NoFrame
    THEN Ran(dialogue_stack, slot_values, <<>>)
    ELSE push_frame(dialogue_stack, slot_values,
             PatternFlowStackFrame(FLOW_PATTERN_CANCEL_ID, NewFrameId(dialogue_stack),
                                   START_STEP))

run_clarify(command, dialogue_stack, slot_values) ==
    push_frame(dialogue_stack, slot_values,
        PatternFlowStackFrame(FLOW_PATTERN_CLARIFICATION, NewFrameId(dialogue_stack),
                              START_STEP))

\* command.run_command_on_tracker(tracker, all_flows, original_tracker)
run_command_on_tracker(command, dialogue_stack, slot_values, flows) ==
    CASE isinstance(command, "CorrectSlots") ->
            run_correct_slots(command, dialogue_stack, slot_values, flows)
      [] isinstance(command, "StartFlow") ->
            run_start_flow(command, dialogue_stack, slot_values)
      [] isinstance(command, "SetSlot") ->
            run_set_slot(command, dialogue_stack, slot_values)
      [] isinstance(command, "FreeFormAnswer") ->
            run_free_form_answer(command, dialogue_stack, slot_values)
      [] isinstance(command, "HandleCodeChange") ->
            run_handle_code_change(command, dialogue_stack, slot_values)
      [] isinstance(command, "CancelFlow") ->
            run_cancel_flow(command, dialogue_stack, slot_values)
      [] isinstance(command, "Clarify") ->
            run_clarify(command, dialogue_stack, slot_values)

(***************************************************************************)
(* execute_commands (command_processor.py 162-213), step by step.          *)
(***************************************************************************)
\* lines 175-178: the commands of the latest message are read, the tracker is
\* copied and the clean-up starts. `filled` is what filled_slots_for_active_flow
\* returns for the tracker. A StartFlow command names a flow of the assistant.
ReceiveMessage(raw, filled) ==
    /\ pc = "idle"
    /\ \A i \in 1..Len(raw) :
          isinstance(raw[i], "StartFlow") => raw[i].flow \in flow_ids(all_flows)
    /\ commands' = WithIds(raw)
    /\ slots_so_far' = filled
    /\ original_tracker' = Tracker(stack, slots, flow_hashes)
    /\ clean_commands' = <<>>
    /\ idx' = 1
    /\ pc' = "clean"
    /\ UNCHANGED <<all_flows, stack, slots, flow_hashes, reversed_commands, overridden,
                   events, executed, returned, error>>
    /\ UNCHANGED <<stack_vars, policy_vars>>

\* variant: the commands are run in the order of the cleaned list
commands_in_given_order(cmds) == cmds

\* line 202: reversed_commands = list(reversed(commands))
commands_in_run_order(cmds) == Reverse(cmds)

\* lines 180-202: the override on updated flows, the flow hash events (applied to
\* the tracker at once) and the reversal of the commands
FindUpdatedFlows ==
    /\ CleanFinished
    /\ LET updated_flows == find_updated_flows(stack, flow_hashes, all_flows)
           new_hashes == calculate_flow_fingerprints(all_flows)
           cmds == IF updated_flows # {} THEN <<HandleCodeChangeCommand>>
                   ELSE clean_commands
       IN  /\ overridden' = (updated_flows # {})
           /\ events' = flow_hash_events(new_hashes, flow_hashes)
           /\ flow_hashes' = IF new_hashes # flow_hashes THEN new_hashes ELSE flow_hashes
           /\ reversed_commands' = commands_in_run_order(cmds)
    /\ pc' = "validate"
    /\ UNCHANGED <<all_flows, stack, slots, commands, slots_so_far, clean_commands, idx,
                   original_tracker, executed, returned, error>>
    /\ UNCHANGED <<stack_vars, policy_vars>>

\* line 204: validate_state_of_commands(commands) raises or lets the turn go on
Validate ==
    /\ pc = "validate"
    /\ LET exc == validate_state_of_commands(Reverse(reversed_commands))
       IN  IF exc # None
           THEN pc' = "raised" /\ error' = exc /\ UNCHANGED idx
           ELSE pc' = "run" /\ idx' = 1 /\ UNCHANGED error
    /\ UNCHANGED <<all_flows, stack, slots, flow_hashes, commands, slots_so_far,
                   clean_commands, reversed_commands, original_tracker, overridden,
                   events, executed, returned>>
    /\ UNCHANGED <<stack_vars, policy_vars>>

\* lines 206-211: the next command is run on the tracker, its events are kept
\* and applied to the tracker
RunCommand ==
    /\ pc = "run"
    /\ idx <= Len(reversed_commands)
    /\ LET ran == run_command_on_tracker(reversed_commands[idx], stack, slots, all_flows)
       IN  /\ events' = events \o ran.events
           /\ stack' = ran.stack
           /\ slots' = ran.slots
    /\ executed' = Append(executed, reversed_commands[idx])
    /\ idx' = idx + 1
    /\ UNCHANGED <<all_flows, flow_hashes, pc, commands, slots_so_far, clean_commands,
                   reversed_commands, original_tracker, overridden, returned, error>>
    /\ UNCHANGED <<stack_vars, policy_vars>>

(***************************************************************************)
(* Specification of a turn: execute_commands on a tracker of a running or  *)
(* fresh conversation, with every raw list up to MaxCmds over TurnAlphabet.*)
(* The flow library of the turn is the one the conversation last ran with, *)
(* or one in which flow B has been changed or removed since.               *)
(***************************************************************************)
TurnAlphabet ==
    {StartFlowCommand("A"), StartFlowCommand("B"), SetSlotCommand("y", "v1"),
     CorrectSlotsCommand(<<CorrectedSlot("x", "v2", 0)>>), FreeFormAnswerCommand,
     CancelFlowCommand, ClarifyCommand}

WithoutB == [f \in (UserFlowIds \ {"B"}) \cup PatternFlowIds |-> "h1"]
ChangedB == [FullLibrary EXCEPT !["B"] = "h2"]

\* <<library of the turn, fingerprints stored by the last turn>>
Deployments ==
    {<<FullLibrary, EmptyDict>>,     \* first turn of a conversation
     <<FullLibrary, FullLibrary>>,   \* nothing changed
     <<ChangedB, FullLibrary>>,      \* flow B was changed
     <<WithoutB, FullLibrary>>,      \* flow B was removed
     <<WithoutB, WithoutB>>}         \* flow B was removed some turns ago

TurnStacks ==
    {<<>>,
     <<UserFlowStackFrame(1, "A", "act", "regular")>>,
     <<UserFlowStackFrame(1, "A", "ask_x", "regular"),
       CollectInformationPatternFlowStackFrame(2)>>,
     <<UserFlowStackFrame(1, "B", "ask_y", "regular"),
       CollectInformationPatternFlowStackFrame(2)>>,
     <<UserFlowStackFrame(1, "A", "act", "regular"),
       CorrectionPatternFlowStackFrame(2, START_STEP, FALSE, PendingX, "A", "ask_x")>>,
     <<UserFlowStackFrame(1, "A", "act", "regular"),
       UserFlowStackFrame(2, "B", START_STEP, "interrupt")>>}

TurnSlots == {NoSlots, [NoSlots EXCEPT !["x"] = "v1"]}

TurnFilled == {{}, {"x"}, {"x", "y"}}

Init ==
    /\ StackIdle
    /\ PolicyIdle
    /\ \E d \in Deployments : all_flows = d[1] /\ flow_hashes = d[2]
    /\ stack \in TurnStacks
    /\ \A i \in 1..Len(stack) :
          stack[i].flow_id # None => stack[i].flow_id \in DOMAIN flow_hashes
    /\ slots \in TurnSlots
    /\ pc = "idle"
    /\ commands = <<>>
    /\ slots_so_far = {}
    /\ clean_commands = <<>>
    /\ reversed_commands = <<>>
    /\ idx = 1
    /\ original_tracker = Tracker(stack, slots, flow_hashes)
    /\ overridden = FALSE
    /\ events = <<>>
    /\ executed = <<>>
    /\ returned = <<>>
    /\ error = None

Next ==
    \/ \E raw \in SeqsUpTo(TurnAlphabet, MaxCmds), filled \in TurnFilled :
          ReceiveMessage(raw, filled)
    \/ CleanStep
    \/ FindUpdatedFlows
    \/ Validate
    \/ RunCommand
    \/ Return

Spec == Init /\ [][Next]_vars

(***************************************************************************)
(* Claims about a turn (checked under Spec).                               *)
(***************************************************************************)
\* a flow frame of the stack the turn started with refers to a flow that no longer
\* exists, or to one whose fingerprint differs from the one stored for it
StaleFlowOnStack ==
    \E i \in 1..Len(original_tracker.stack) :
        LET frame == original_tracker.stack[i]
        IN  /\ frame.flow_id # None
            /\ \/ frame.flow_id \notin DOMAIN all_flows
               \/ /\ frame.flow_id \in DOMAIN original_tracker.flow_hashes
                  /\ all_flows[frame.flow_id] # original_tracker.flow_hashes[frame.flow_id]

\* C7 (as claimed): when a flow on the stack is gone or changed, execute_commands
\* runs exactly one command, HandleCodeChange, and none of the detected commands,
\* and the new fingerprint map is emitted as a slot-set event of the turn.
C7_CodeChangeOverride ==
    (pc # "idle" /\ StaleFlowOnStack) =>
        /\ pc # "raised"
        /\ \A k \in 1..Len(executed) : isinstance(executed[k], "HandleCodeChange")
        /\ pc = "done" =>
              /\ executed = <<HandleCodeChangeCommand>>
              /\ \E k \in 1..Len(returned) :
                    /\ returned[k].key = FLOW_HASHES_SLOT
                    /\ returned[k].value = all_flows

\* the flows of the StartFlow commands of a list, in order
StartedFlows(cmds) ==
    LET started == FilterType(cmds, "StartFlow")
    IN  [i \in 1..Len(started) |-> started[i].flow]

\* the flows of the user flow frames the turn has put on the stack, bottom first
RECURSIVE NewUserFlows(_)
NewUserFlows(dialogue_stack) ==
    IF dialogue_stack = <<>> THEN <<>>
    ELSE IF /\ Head(dialogue_stack).type = "flow"
            /\ \A i \in 1..Len(original_tracker.stack) :
                  original_tracker.stack[i].frame_id # Head(dialogue_stack).frame_id
         THEN <<Head(dialogue_stack).flow_id>> \o NewUserFlows(Tail(dialogue_stack))
         ELSE NewUserFlows(Tail(dialogue_stack))

\* the tracker after the commands of a list were run one after the other, each on
\* the tracker the one before left
RECURSIVE RunAll(_, _, _)
RunAll(cmds, dialogue_stack, slot_values) ==
    IF cmds = <<>> THEN Ran(dialogue_stack, slot_values, <<>>)
    ELSE LET ran == run_command_on_tracker(Head(cmds), dialogue_stack, slot_values,
                                           all_flows)
         IN  RunAll(Tail(cmds), ran.stack, ran.slots)

\* C8: the cleaned commands are run in exactly the reverse of their cleaned
\* order, each on the tracker as the commands before it left it, so that the
\* flow of the StartFlow command declared first ends up on top of the new frames.
C8_ReverseOrder ==
    (pc \in {"run", "done"} /\ ~overridden) =>
        /\ \A k \in 1..Len(executed) :
              executed[k] = clean_commands[Len(clean_commands) + 1 - k]
        /\ pc = "done" => Len(executed) = Len(clean_commands)
        /\ stack = RunAll(executed, original_tracker.stack, original_tracker.slots).stack
        /\ slots = RunAll(executed, original_tracker.stack, original_tracker.slots).slots
        /\ pc = "done" => NewUserFlows(stack) = Reverse(StartedFlows(clean_commands))

C8_Witness ==
    /\ pc = "done"
    /\ ~overridden
    /\ Len(StartedFlows(clean_commands)) >= 2
    /\ StartedFlows(clean_commands)[1] # StartedFlows(clean_commands)[2]
    /\ top(stack).flow_id = StartedFlows(clean_commands)[1]

\* a command list that breaks an invariant of the clean-up
InvalidCommands(cmds) ==
    \/ CountOf(cmds, "CancelFlow") > 1
    \/ CountOf(cmds, "CorrectSlots") > 1
    \/ ~FreeFormPrefix(cmds)

\* C9: once the commands to execute are fixed, a list that breaks an invariant of
\* the clean-up makes execute_commands raise before any command is run: no command
\* is executed and the stack and the slots stay as they were at the start.
C9_RaiseBeforeRun ==
    (pc \in {"run", "done", "raised"} /\ idx > Len(commands)
        /\ InvalidCommands(Reverse(reversed_commands))) =>
            /\ pc = "raised"
            /\ executed = <<>>
            /\ stack = original_tracker.stack
            /\ slots = original_tracker.slots

C9_Witness ==
    /\ pc = "raised"
    /\ error = "ValueError: There can only be one correct slots command."
    /\ CountOf(commands, "CorrectSlots") > 1
    /\ executed = <<>>

(***************************************************************************)
(* The flow stack of the flow policy and its frames (flow_policy.py        *)
(* 208-439) and the pattern frames (rasa/cdu/patterns, rasa/               *)
(* dialogue_understanding/patterns). An object is a record with the name   *)
(* of its class in `cls`; a dict is a record of its keys.                  *)
(***************************************************************************)
MaxFrames == 2   \* deepest stack drawn for the serialisation

\* StackFrameType: the members of the enum
StackFrameTypes == {"INTERRUPT", "LINK", "RESUME", "CORRECTION", "REGULAR"}

\* StackFrameType.<member>.value
StackFrameType_value(member) ==
    CASE member = "INTERRUPT" -> "interrupt"
      [] member = "LINK" -> "link"
      [] member = "RESUME" -> "resume"
      [] member = "CORRECTION" -> "correction"
      [] member = "REGULAR" -> "regular"

\* variant: a link frame is read back as a regular frame
StackFrameType_from_str_without_link(typ) ==
    IF typ = None THEN [exc |-> None, member |-> "REGULAR"]
    ELSE IF typ = "interrupt" THEN [exc |-> None, member |-> "INTERRUPT"]
    ELSE IF typ = "link" THEN [exc |-> None, member |-> "REGULAR"]
    ELSE IF typ = "regular" THEN [exc |-> None, member |-> "REGULAR"]
    ELSE IF typ = "resume" THEN [exc |-> None, member |-> "RESUME"]
    ELSE IF typ = "correction" THEN [exc |-> None, member |-> "CORRECTION"]
    ELSE [exc |-> "NotImplementedError", member |-> None]

\* StackFrameType.from_str
StackFrameType_from_str(typ) ==
    IF typ = None THEN [exc |-> None, member |-> "REGULAR"]
    ELSE IF typ = "interrupt" THEN [exc |-> None, member |-> "INTERRUPT"]
    ELSE IF typ = "link" THEN [exc |-> None, member |-> "LINK"]
    ELSE IF typ = "regular" THEN [exc |-> None, member |-> "REGULAR"]
    ELSE IF typ = "resume" THEN [exc |-> None, member |-> "RESUME"]
    ELSE IF typ = "correction" THEN [exc |-> None, member |-> "CORRECTION"]
    ELSE [exc |-> "NotImplementedError", member |-> None]

FlowStackFrame(flow_id, step_id, frame_type) ==
    [cls |-> "FlowStackFrame", flow_id |-> flow_id, step_id |-> step_id,
     frame_type |-> frame_type]

\* FlowStackFrame.from_dict
FlowStackFrame_from_dict(data) ==
    LET typ == StackFrameType_from_str(IF "frame_type" \in DOMAIN data
                                           THEN data.frame_type ELSE None)
    IN  IF typ.exc # None THEN [exc |-> typ.exc, frame |-> None]
        ELSE [exc |-> None,
              frame |-> FlowStackFrame(data.flow_id, data.step_id, typ.member)]

\* FlowStackFrame.as_dict
FlowStackFrame_as_dict(frame) ==
    [flow_id |-> frame.flow_id, step_id |-> frame.step_id,
     frame_type |-> StackFrameType_value(frame.frame_type)]

FLOW_PATTERN_CONTINUE_INTERRUPTED == "pattern_continue_interrupted"

\* ContinueInterruptedPatternFlowStackFrame(frame_id, step_id=, previous_flow_name=):
\* flow_id keeps the default of the class
ContinueInterruptedPatternFlowStackFrame(frame_id, step_id, previous_flow_name) ==
    [cls |-> "ContinueInterruptedPatternFlowStackFrame", frame_id |-> frame_id,
     flow_id |-> FLOW_PATTERN_CONTINUE_INTERRUPTED, step_id |-> step_id,
     previous_flow_name |-> previous_flow_name]

ClarifyPatternFlowStackFrame(frame_id, step_id, names, clarification_options) ==
    [cls |-> "ClarifyPatternFlowStackFrame", frame_id |-> frame_id,
     flow_id |-> FLOW_PATTERN_CLARIFICATION, step_id |-> step_id, names |-> names,
     clarification_options |-> clarification_options]

\* PatternFlowStackFrame.as_dict: the fields of the frame and its type()
PatternFlowStackFrame_as_dict(frame) ==
    [frame_id |-> frame.frame_id, flow_id |-> frame.flow_id, step_id |-> frame.step_id,
     type |-> IF frame.cls = "ContinueInterruptedPatternFlowStackFrame"
              THEN "pattern_continue_interrupted" ELSE "pattern_clarification"]

\* frame.as_dict() of the class of the frame; a pattern frame updates the dict
\* of its base class with its own fields
frame_as_dict(frame) ==
    CASE frame.cls = "FlowStackFrame" -> FlowStackFrame_as_dict(frame)
      [] frame.cls = "ContinueInterruptedPatternFlowStackFrame" ->
            [previous_flow_name |-> frame.previous_flow_name]
                @@ PatternFlowStackFrame_as_dict(frame)
      [] frame.cls = "ClarifyPatternFlowStackFrame" ->
            [names |-> frame.names, clarification_options |-> frame.clarification_options]
                @@ PatternFlowStackFrame_as_dict(frame)

\* from_dict of the class the type of the dict names; a dict without type is
\* the dict of a FlowStackFrame
frame_from_dict(data) ==
    IF "type" \notin DOMAIN data THEN FlowStackFrame_from_dict(data)
    ELSE [exc |-> None,
          frame |-> CASE data.type = "pattern_continue_interrupted" ->
                            ContinueInterruptedPatternFlowStackFrame(
                                data.frame_id, data.step_id, data.previous_flow_name)
                      [] data.type = "pattern_clarification" ->
                            ClarifyPatternFlowStackFrame(
                                data.frame_id, data.step_id, data.names,
                                data.clarification_options)]

\* FlowStack.as_dict
FlowStack_as_dict(frame_list) ==
    [i \in 1..Len(frame_list) |-> frame_as_dict(frame_list[i])]

\* FlowStack.from_dict: [exc, frames]
FlowStack_from_dict(data) ==
    IF \E i \in 1..Len(data) : frame_from_dict(data[i]).exc # None
    THEN [exc |-> frame_from_dict(data[CHOOSE i \in 1..Len(data) :
                      /\ frame_from_dict(data[i]).exc # None
                      /\ \A j \in 1..(i - 1) : frame_from_dict(data[j]).exc = None]).exc,
          frames |-> <<>>]
    ELSE [exc |-> None,
          frames |-> [i \in 1..Len(data) |-> frame_from_dict(data[i]).frame]]

(***************************************************************************)
(* The round trip of a stack through as_dict and from_dict. `serialized`   *)
(* and `deserialized` are empty until the conversion has run and hold its  *)
(* one result afterwards.                                                  *)
(***************************************************************************)
FlowFrames ==
    {FlowStackFrame(f, s, t) :
        f \in {"transfer", "help"}, s \in {START_STEP, "ask_x"}, t \in StackFrameTypes}

PatternFrames ==
    {ContinueInterruptedPatternFlowStackFrame(i, s, n) :
        i \in {"f1", "f2"}, s \in {START_STEP, "ask_x"}, n \in {"transfer", ""}}
    \cup {ClarifyPatternFlowStackFrame(i, START_STEP, n, "") :
            i \in {"f1", "f2"}, n \in {<<>>, <<"transfer", "help">>}}

\* dicts of frames that no as_dict of this model has written
PersistedDicts ==
    { [flow_id |-> "transfer", step_id |-> "ask_x"],
      [flow_id |-> "transfer", step_id |-> "ask_x", frame_type |-> "call"],
      [flow_id |-> "transfer", step_id |-> "ask_x", frame_type |-> "unknown"],
      [frame_id |-> "f1", flow_id |-> "transfer", step_id |-> START_STEP,
       type |-> "pattern_continue_interrupted", previous_flow_name |-> "help"],
      [frame_id |-> "f2", flow_id |-> "help", step_id |-> START_STEP,
       type |-> "pattern_clarification", names |-> <<"help">>,
       clarification_options |-> "help"] }

\* stack.as_dict()
AsDict ==
    /\ serialized = <<>>
    /\ serialized' = <<FlowStack_as_dict(frames)>>
    /\ UNCHANGED <<frames, deserialized, turn_vars, policy_vars>>

\* the dicts come from a store instead
LoadPersisted(data) ==
    /\ serialized = <<>>
    /\ frames = <<>>
    /\ serialized' = <<data>>
    /\ UNCHANGED <<frames, deserialized, turn_vars, policy_vars>>

\* FlowStack.from_dict(serialized)
FromDict ==
    /\ serialized # <<>>
    /\ deserialized = <<>>
    /\ deserialized' = <<FlowStack_from_dict(serialized[1])>>
    /\ UNCHANGED <<frames, serialized, turn_vars, policy_vars>>

TurnIdle ==
    /\ all_flows = <<>>
    /\ stack = <<>>
    /\ slots = NoSlots
    /\ flow_hashes = EmptyDict
    /\ pc = "idle"
    /\ commands = <<>>
    /\ slots_so_far = {}
    /\ clean_commands = <<>>
    /\ reversed_commands = <<>>
    /\ idx = 1
    /\ original_tracker = None
    /\ overridden = FALSE
    /\ events = <<>>
    /\ executed = <<>>
    /\ returned = <<>>
    /\ error = None

InitStack ==
    /\ TurnIdle
    /\ PolicyIdle
    /\ frames \in SeqsUpTo(FlowFrames \cup PatternFrames, MaxFrames)
    /\ serialized = <<>>
    /\ deserialized = <<>>

NextStack ==
    \/ AsDict
    \/ \E d \in PersistedDicts : LoadPersisted(<<d>>)
    \/ FromDict

SpecStack == InitStack /\ [][NextStack]_vars

FLOW_PREFIX == "flow_"
ACTION_LISTEN_NAME == "action_listen"
ACTION_SEND_TEXT == "action_send_text"
CANCEL_FLOW_INTENT == "cancel_flow"
CORRECTION_INTENT == "correction"
FLOW_STACK_SLOT == "flow_stack"
CORRECTED_SLOTS_SLOT == "corrected_slots"
PREVIOUS_FLOW_SLOT == "previous_flow_name"
CANCELLED_FLOW_SLOT == "cancelled_flow"

\* variant: the score is left at 0.0 whatever the caller passes
ActionPrediction_unscored(action_name, score, key, value, evs) ==
    [action_name |-> action_name, score |-> 0, metadata |-> [key |-> key, value |-> value],
     events |-> evs]

\* metadata={"slots": {key: value}}; key None: no metadata
ActionPrediction(action_name, score, key, value, evs) ==
    [action_name |-> action_name, score |-> score, metadata |-> [key |-> key, value |-> value],
     events |-> evs]

\* StaticFlowLink, IfFlowLink and ElseFlowLink: a condition compares a slot
\* with a value
FlowLink(type, slot, value, target) ==
    [type |-> type, condition |-> [slot |-> slot, value |-> value], target |-> target]

\* a step of a flow: the fields the step classes have, unset ones None or empty
FlowStep(id, type, links) ==
    [id |-> id, type |-> type, links |-> links, question |-> None, skip_if_filled |-> FALSE,
     scope |-> None, action |-> None, link |-> None, slots |-> <<>>,
     trigger_conditions |-> <<>>]

NoFlowStep == FlowStep(None, None, <<>>)

(***************************************************************************)
(* The flows of the policy, in the order of all_flows.underlying_flows.    *)
(* "transfer" asks for x and y, branches on them with two if-links and an  *)
(* else-link, and has an action step whose only link is an if-link.        *)
(* "help" has no name, starts on a user message with the help intent or    *)
(* with the cancel intent and the entity "all", and goes back to its first *)
(* step while x has no value. "reply" sets x and then y with two set_slots *)
(* steps and answers with a generated text. "handoff" starts with a link   *)
(* to "reply" and then asks for x with session scope and for y with flow   *)
(* scope, both only while unset.                                           *)
(***************************************************************************)
PolicyFlows ==
    << [id |-> "transfer", name |-> "transfer money",
        steps |->
          << [FlowStep("ask_x", "question", <<FlowLink("static", None, None, "ask_y")>>)
                EXCEPT !.question = "x", !.scope = "flow"],
             [FlowStep("ask_y", "question",
                       <<FlowLink("if", "x", "v1", "act"), FlowLink("if", "y", "v1", "to_help"),
                         FlowLink("else", None, None, END_STEP)>>)
                EXCEPT !.question = "y", !.scope = "flow", !.skip_if_filled = TRUE],
             [FlowStep("act", "action", <<FlowLink("if", "y", "v1", END_STEP)>>)
                EXCEPT !.action = "utter_done"],
             [FlowStep("to_help", "link", <<>>) EXCEPT !.link = "help"] >>],
       [id |-> "help", name |-> None,
        steps |->
          << [FlowStep("greet", "user_message",
                       <<FlowLink("if", "x", "v1", "say"), FlowLink("else", None, None, "greet")>>)
                EXCEPT !.trigger_conditions =
                          << [intent |-> "help", entities |-> {}],
                             [intent |-> CANCEL_FLOW_INTENT, entities |-> {"all"}] >>],
             [FlowStep("say", "action", <<>>) EXCEPT !.action = "utter_help"] >>],
       [id |-> "reply", name |-> "reply",
        steps |->
          << [FlowStep("note", "set_slots", <<FlowLink("static", None, None, "mark")>>)
                EXCEPT !.slots = <<[key |-> "x", value |-> "v1"]>>],
             [FlowStep("mark", "set_slots", <<FlowLink("static", None, None, "gen")>>)
                EXCEPT !.slots = <<[key |-> "y", value |-> "v2"]>>],
             FlowStep("gen", "generate_response",
                      <<FlowLink("static", None, None, END_STEP)>>) >>],
       [id |-> "handoff", name |-> "handoff",
        steps |->
          << [FlowStep("to_reply", "link",
                       <<FlowLink("if", "x", "v1", "ask_second"),
                         FlowLink("else", None, None, "ask_first")>>)
                EXCEPT !.link = "reply"],
             [FlowStep("ask_first", "question",
                       <<FlowLink("static", None, None, "ask_second")>>)
                EXCEPT !.question = "x", !.scope = "session", !.skip_if_filled = TRUE],
             [FlowStep("ask_second", "question", <<>>)
                EXCEPT !.question = "y", !.scope = "flow", !.skip_if_filled = TRUE] >>] >>

NoFlow == [id |-> None, name |-> None, steps |-> <<>>]

\* FlowsList.flow_by_id
flow_by_id(flow_id) ==
    IF \E i \in 1..Len(PolicyFlows) : PolicyFlows[i].id = flow_id
    THEN PolicyFlows[CHOOSE i \in 1..Len(PolicyFlows) : PolicyFlows[i].id = flow_id]
    ELSE NoFlow

\* Flow.step_by_id: the start step links to the first step, the end step has
\* no links, a step that is not there is None
flow_step_by_id(flow, step_id) ==
    IF step_id = START_STEP
    THEN FlowStep(START_STEP, "start", <<FlowLink("static", None, None, flow.steps[1].id)>>)
    ELSE IF step_id = END_STEP THEN FlowStep(END_STEP, "end", <<>>)
    ELSE IF \E i \in 1..Len(flow.steps) : flow.steps[i].id = step_id
    THEN flow.steps[CHOOSE i \in 1..Len(flow.steps) : flow.steps[i].id = step_id]
    ELSE NoFlowStep

\* variant: a frame of an unknown flow is taken as a frame of the first flow
FlowStack_top_flow_with_default(frame_list) ==
    IF frame_list = <<>> THEN NoFlow
    ELSE IF flow_by_id(frame_list[Len(frame_list)].flow_id).id = None THEN PolicyFlows[1]
    ELSE flow_by_id(frame_list[Len(frame_list)].flow_id)

\* FlowStack.top_flow
FlowStack_top_flow(frame_list) ==
    IF frame_list = <<>> THEN NoFlow ELSE flow_by_id(frame_list[Len(frame_list)].flow_id)

\* FlowStack.top_flow_step
FlowStack_top_flow_step(frame_list) ==
    IF frame_list = <<>> \/ FlowStack_top_flow(frame_list).id = None THEN NoFlowStep
    ELSE flow_step_by_id(FlowStack_top_flow(frame_list), frame_list[Len(frame_list)].step_id)

\* variant: the new frame is put under the current top frame
FlowStack_push_below_top(frame_list, frame) ==
    IF frame_list = <<>> THEN <<frame>>
    ELSE Append(Append(SubSeq(frame_list, 1, Len(frame_list) - 1), frame),
                frame_list[Len(frame_list)])

\* FlowStack.push (234-240): the frame is appended, the last frame is the top
FlowStack_push(frame_list, frame) == Append(frame_list, frame)

\* variant: the pop takes the oldest frame
FlowStack_pop_bottom(frame_list) == Tail(frame_list)

\* variant: the pop empties the stack
FlowStack_pop_all(frame_list) == <<>>

\* FlowStack.pop: the frames that stay
FlowStack_pop(frame_list) == SubSeq(frame_list, 1, Len(frame_list) - 1)

\* variant: the top frame is pointed at the continue marker of the step
advance_top_flow_to_marker(frame_list, updated_id) ==
    IF frame_list = <<>> THEN frame_list
    ELSE [frame_list EXCEPT ![Len(frame_list)].step_id = "NEXT:" \o updated_id]

\* FlowStack.advance_top_flow
advance_top_flow(frame_list, updated_id) ==
    IF frame_list = <<>> THEN frame_list
    ELSE [frame_list EXCEPT ![Len(frame_list)].step_id = updated_id]

\* UserMessageStep.is_triggered with TriggerCondition.is_triggered
is_triggered(first_step, latest_message) ==
    /\ latest_message.intent # None
    /\ \E i \in 1..Len(first_step.trigger_conditions) :
          /\ first_step.trigger_conditions[i].intent = latest_message.intent
          /\ first_step.trigger_conditions[i].entities \subseteq latest_message.entities

\* variant: the flows are tried from the last one to the first one
last_of(candidates) == CHOOSE i \in candidates : \A j \in candidates : j <= i

\* the first element a for-loop over a list comes to
first_of(candidates) == CHOOSE i \in candidates : \A j \in candidates : i <= j

\* variant: a message with the cancel intent starts no flow
find_startable_flow_unless_cancelled(tr) ==
    LET startable == {i \in 1..Len(PolicyFlows) :
                        /\ PolicyFlows[i].steps # <<>>
                        /\ PolicyFlows[i].steps[1].type = "user_message"
                        /\ is_triggered(PolicyFlows[i].steps[1], tr.latest_message)}
    IN  IF \/ tr.latest_message.intent = None
           \/ tr.latest_action_name # ACTION_LISTEN_NAME
           \/ tr.latest_message.intent = CANCEL_FLOW_INTENT
        THEN NoFlow
        ELSE IF startable = {} THEN NoFlow ELSE PolicyFlows[first_of(startable)]

\* FlowExecutor.find_startable_flow
\* variant: a flow is started whatever the latest action was
find_startable_flow_after_any_action(tr) ==
    LET startable == {i \in 1..Len(PolicyFlows) :
                        /\ PolicyFlows[i].steps # <<>>
                        /\ PolicyFlows[i].steps[1].type = "user_message"
                        /\ is_triggered(PolicyFlows[i].steps[1], tr.latest_message)}
    IN  IF tr.latest_message.intent = None
        THEN NoFlow
        ELSE IF startable = {} THEN NoFlow ELSE PolicyFlows[first_of(startable)]

find_startable_flow(tr) ==
    LET startable == {i \in 1..Len(PolicyFlows) :
                        /\ PolicyFlows[i].steps # <<>>
                        /\ PolicyFlows[i].steps[1].type = "user_message"
                        /\ is_triggered(PolicyFlows[i].steps[1], tr.latest_message)}
    IN  IF tr.latest_message.intent = None \/ tr.latest_action_name # ACTION_LISTEN_NAME
        THEN NoFlow
        ELSE IF startable = {} THEN NoFlow ELSE PolicyFlows[first_of(startable)]

\* FlowExecutor.is_condition_satisfied: the predicate compares one slot with
\* one value
is_condition_satisfied(predicate, slot_values) ==
    slot_values[predicate.slot] = predicate.value

\* FlowExecutor._select_next_step_id: [exc, id]
select_next_step_id(current, slot_values) ==
    LET links == current.links
        satisfied == {i \in 1..Len(links) :
                        /\ links[i].type = "if"
                        /\ links[i].condition.slot # None
                        /\ is_condition_satisfied(links[i].condition, slot_values)}
        otherwise == {i \in 1..Len(links) : links[i].type = "else"}
    IN  IF Len(links) = 1 /\ links[1].type = "static"
        THEN [exc |-> None, id |-> links[1].target]
        ELSE IF satisfied # {} THEN [exc |-> None, id |-> links[first_of(satisfied)].target]
        ELSE IF otherwise # {} THEN [exc |-> None, id |-> links[first_of(otherwise)].target]
        ELSE IF links # <<>> THEN [exc |-> "ValueError", id |-> None]
        ELSE IF current.id # END_STEP THEN [exc |-> None, id |-> END_STEP]
        ELSE [exc |-> None, id |-> None]

(***************************************************************************)
(* The tracker: slots x and y (initial value None), the latest message     *)
(* (intent None: no message), the latest action, the active loop, the      *)
(* stack slot, the corrected-slots slot and the events.                    *)
(***************************************************************************)
ActiveLoop == OtherEvent("active_loop")   \* ActiveLoop(None)
UserUttered == OtherEvent("user")

\* DialogueStateTracker.update_with_events
RECURSIVE update_with_events(_, _)
update_with_events(tr, evs) ==
    IF evs = <<>> THEN tr
    ELSE LET e == Head(evs)
             applied == IF IsSlotSet(e) THEN [tr EXCEPT !.slots[e.key] = e.value]
                        ELSE IF e = ActiveLoop THEN [tr EXCEPT !.active_loop_name = None]
                        ELSE tr
         IN  update_with_events([applied EXCEPT !.events = Append(@, e)], Tail(evs))

\* FlowExecutor._slot_sets_after_latest_message: the last event first
slot_sets_after_latest_message(tr) ==
    LET users == {i \in 1..Len(tr.events) : tr.events[i] = UserUttered}
        after == IF users = {} THEN tr.events
                 ELSE SubSeq(tr.events, (CHOOSE i \in users : \A j \in users : j <= i) + 1,
                             Len(tr.events))
    IN  IF tr.latest_message.intent = None THEN <<>>
        ELSE SelectSeq(Reverse(after), IsSlotSet)

\* FlowExecutor.should_flow_be_cancelled
should_flow_be_cancelled(tr) ==
    /\ tr.latest_message.intent # None
    /\ tr.latest_action_name = ACTION_LISTEN_NAME
    /\ tr.latest_message.intent = CANCEL_FLOW_INTENT

\* FlowExecutor._is_correction
is_correction(tr) ==
    /\ tr.latest_action_name = ACTION_LISTEN_NAME
    /\ tr.latest_message.intent # None
    /\ tr.latest_message.intent = CORRECTION_INTENT

\* variant: the question is finished once its slot has a value
predict_question_loop_by_slot(tr, loop_name) ==
    IF loop_name = "question_x" /\ tr.slots["x"] # None THEN None
    ELSE IF loop_name = "question_y" /\ tr.slots["y"] # None THEN None
    ELSE loop_name

\* FlowExecutor._predict_question_loop
predict_question_loop(tr, loop_name) ==
    LET is_finished == /\ tr.latest_action_name # None
                       /\ tr.latest_action_name = loop_name
                       /\ tr.active_loop_name = None
        should_predict_loop == /\ ~tr.is_active_loop_rejected
                               /\ tr.latest_action_name # None
                               /\ tr.latest_action_name # loop_name
    IN  IF is_finished THEN None
        ELSE IF should_predict_loop THEN loop_name
        ELSE ACTION_LISTEN_NAME

\* variant: the question loop is looked at before the correction
wrap_up_previous_step_loop_first(flow, step, tr) ==
    IF step.type = "question"
    THEN IF predict_question_loop(tr, "question_" \o step.question) # None
         THEN ActionPrediction(predict_question_loop(tr, "question_" \o step.question), 1,
                               None, None, <<>>)
         ELSE IF is_correction(tr)
         THEN ActionPrediction(FLOW_PREFIX \o "pattern_correction", 1, CORRECTED_SLOTS_SLOT,
                               slot_sets_after_latest_message(tr), <<>>)
         ELSE ActionPrediction(None, 0, None, None, <<>>)
    ELSE ActionPrediction(None, 0, None, None, <<>>)

\* FlowExecutor._wrap_up_previous_step
wrap_up_previous_step(flow, step, tr) ==
    IF step.type = "question"
    THEN IF is_correction(tr)
         THEN ActionPrediction(FLOW_PREFIX \o "pattern_correction", 1, CORRECTED_SLOTS_SLOT,
                               slot_sets_after_latest_message(tr), <<>>)
         ELSE IF predict_question_loop(tr, "question_" \o step.question) # None
         THEN ActionPrediction(predict_question_loop(tr, "question_" \o step.question), 1,
                               None, None, <<>>)
         ELSE ActionPrediction(None, 0, None, None, <<>>)
    ELSE ActionPrediction(None, 0, None, None, <<>>)

\* variant: the slot of every question step is reset, whatever its scope
reset_collected_slots(current_flow, tr) ==
    LET asked == SelectSeq(current_flow.steps, LAMBDA s : s.type = "question")
    IN  [i \in 1..Len(asked) |-> SlotSet(asked[i].question, None)]

\* FlowExecutor._reset_scoped_slots
reset_scoped_slots(current_flow, tr) ==
    LET scoped == SelectSeq(current_flow.steps,
                            LAMBDA s : s.type = "question" /\ s.scope = "flow")
    IN  [i \in 1..Len(scoped) |-> SlotSet(scoped[i].question, None)]

\* Flow.previously_asked_questions: the question steps up to the step of that
\* id, the most recently asked one first
previously_asked_questions(flow, step_id) ==
    LET at == {i \in 1..Len(flow.steps) : flow.steps[i].id = step_id}
        asked == IF at = {} THEN <<>>
                 ELSE SelectSeq(SubSeq(flow.steps, 1, first_of(at)),
                                LAMBDA s : s.type = "question")
    IN  Reverse(asked)

\* variant: the questions are scanned from the most recently asked one
asked_most_recent_first(asked_question_steps) == asked_question_steps

\* line 603: reversed(asked_question_steps)
asked_in_scan_order(asked_question_steps) == Reverse(asked_question_steps)

\* FlowExecutor._find_earliest_updated_question
find_earliest_updated_question(current_step, flow, updated_slots) ==
    LET scan == asked_in_scan_order(previously_asked_questions(flow, current_step.id))
        hits == {i \in 1..Len(scan) :
                    \E k \in 1..Len(updated_slots) : updated_slots[k] = scan[i].question}
    IN  IF hits = {} THEN NoFlowStep ELSE scan[first_of(hits)]

\* FlowExecutor._correct_flow_position: the stack afterwards
correct_flow_position(frame_list, newly_set_slots, step, flow) ==
    IF find_earliest_updated_question(step, flow, newly_set_slots).id # None
    THEN advance_top_flow(frame_list,
                          find_earliest_updated_question(step, flow, newly_set_slots).id)
    ELSE frame_list

\* variant: the metadata names the previous flow by its id
previous_flow_id_only(previous_flow) == previous_flow.id

\* lines 964-968: previous_flow.name or previous_flow.id if previous_flow else None
previous_flow_name_or_id(previous_flow) ==
    IF previous_flow.id = None THEN None
    ELSE IF previous_flow.name # None THEN previous_flow.name
    ELSE previous_flow.id

\* variant: the question is asked without resetting the slot
run_question_step_without_reset(step, tr) ==
    IF step.skip_if_filled /\ tr.slots[step.question] # None
    THEN ActionPrediction(None, 0, None, None, <<>>)
    ELSE ActionPrediction("question_" \o step.question, 1, None, None, <<>>)

\* lines 897-908 of _run_step: a question step; the initial value of a slot is None
run_question_step(step, tr) ==
    IF step.skip_if_filled /\ tr.slots[step.question] # None
    THEN ActionPrediction(None, 0, None, None, <<>>)
    ELSE ActionPrediction("question_" \o step.question, 1, None, None,
             IF tr.slots[step.question] # None
             THEN <<SlotSet(step.question, None)>> ELSE <<>>)

\* llm.generate_text_openai_chat (line 950), a call of an external service:
\* it returns a text, returns nothing, or raises
GeneratorOutcomes ==
    {[exc |-> None, text |-> "generated"], [exc |-> None, text |-> None],
     [exc |-> "Exception", text |-> None]}

\* FlowExecutor._run_step on the stack `frame_list`, where the text generator
\* answers with `generated`: [exc, prediction, flow_stack]
run_step(flow, step, tr, frame_list, generated) ==
    LET none == ActionPrediction(None, 0, None, None, <<>>)
        result(prediction, stack_after) ==
            [exc |-> None, prediction |-> prediction, flow_stack |-> stack_after]
        raised == [exc |-> "FlowException", prediction |-> none, flow_stack |-> frame_list]
        popped == FlowStack_pop(frame_list)
        current_frame == frame_list[Len(frame_list)]
        previous_flow == FlowStack_top_flow(popped)
        previous_flow_step == FlowStack_top_flow_step(popped)
        evs == reset_scoped_slots(flow, tr)
    IN  CASE step.type = "question" -> result(run_question_step(step, tr), frame_list)
          [] step.type = "action" ->
                IF step.action = None THEN raised
                ELSE result(ActionPrediction(step.action, 1, None, None, <<>>), frame_list)
          [] step.type = "link" ->
                result(ActionPrediction(None, 0, None, None,
                            IF tr.active_loop_name # None THEN <<ActiveLoop>> ELSE <<>>),
                       FlowStack_push(frame_list, FlowStackFrame(step.link, START_STEP, "LINK")))
          [] step.type = "set_slots" ->
                result(ActionPrediction(None, 0, None, None,
                            [i \in 1..Len(step.slots) |->
                                SlotSet(step.slots[i].key, step.slots[i].value)]),
                       frame_list)
          [] step.type \in {"user_message", "entry_prompt"} -> result(none, frame_list)
          [] step.type = "generate_response" ->
                IF generated.exc # None
                THEN [exc |-> generated.exc, prediction |-> none, flow_stack |-> frame_list]
                ELSE result(ActionPrediction(ACTION_SEND_TEXT, 1, "message", generated.text,
                                             <<>>),
                            frame_list)
          [] step.type = "end" ->
                IF frame_list = <<>>
                THEN [exc |-> "IndexError", prediction |-> none, flow_stack |-> frame_list]
                ELSE IF current_frame.frame_type = "INTERRUPT"
                THEN result(ActionPrediction(FLOW_PREFIX \o "pattern_continue_interrupted", 1,
                                PREVIOUS_FLOW_SLOT,
                                previous_flow_name_or_id(previous_flow),
                                evs),
                            popped)
                ELSE IF /\ previous_flow.id # None
                        /\ previous_flow_step.id # None
                        /\ current_frame.frame_type = "CORRECTION"
                        /\ tr.corrected_slots # <<>>
                THEN result(ActionPrediction(None, 0, None, None, evs),
                            correct_flow_position(popped, tr.corrected_slots,
                                                  previous_flow_step, previous_flow))
                ELSE result(ActionPrediction(None, 0, None, None, evs), popped)
          [] OTHER -> raised

(***************************************************************************)
(* One call of predict_action_probabilities (143-180). epc is "idle"       *)
(* before the call, "loop" at the head of the while loop of                *)
(* _select_next_action, "gather" after the loop, "returned" when           *)
(* advance_flows has returned and "raised" when an exception left it.      *)
(* `selection` holds the locals of the last pass of the loop and the       *)
(* number of passes made, modulo 2, which tells a pass that changes        *)
(* nothing from no pass at all; its field `produced` holds, in order, the  *)
(* events of every wrap-up and every step run of the call so far, and its  *)
(* field `generated` what the text generator answered in the pass.         *)
(***************************************************************************)
NoSelection ==
    [passed |-> FALSE, passes |-> 0, stack_before |-> <<>>, flow_id |-> None, previous_step |-> NoFlowStep,
     slot_values |-> NoSlots, selected |-> FALSE, next_id |-> None, ran |-> FALSE,
     current_step |-> NoFlowStep, exc |-> None, produced |-> <<>>,
     generated |-> [exc |-> "NotCalled", text |-> None]]

\* line 788 read from the start of the list: the events of earlier turns come along
gathered_events_from_start(tr_events, number_of_initial_events) ==
    tr_events

\* line 788: list(tracker.events)[number_of_initial_events:]
gathered_events(tr_events, number_of_initial_events) ==
    SubSeq(tr_events, number_of_initial_events + 1, Len(tr_events))

\* FlowExecutor.from_tracker and advance_flows up to the call of _select_next_action
AdvanceFlows ==
    /\ epc = "idle"
    /\ LET from_tracker == FlowStack_from_dict(tracker.flow_stack_slot).frames
           new_flow == find_startable_flow(tracker)
           popped == FlowStack_pop(from_tracker)
       IN  IF new_flow.id # None
           THEN /\ predicted_action' =
                        ActionPrediction(FLOW_PREFIX \o new_flow.id, 1, None, None, <<>>)
                /\ flow_stack' = from_tracker
                /\ epc' = "returned"
           ELSE IF from_tracker = <<>>
           THEN /\ predicted_action' = ActionPrediction(None, 0, None, None, <<>>)
                /\ flow_stack' = from_tracker
                /\ epc' = "returned"
           ELSE IF should_flow_be_cancelled(tracker)
           THEN /\ predicted_action' =
                        ActionPrediction(FLOW_PREFIX \o "pattern_cancel_flow", 1,
                            CANCELLED_FLOW_SLOT, from_tracker[Len(from_tracker)].flow_id,
                            <<SlotSet(FLOW_STACK_SLOT, FlowStack_as_dict(popped))>>)
                /\ flow_stack' = popped
                /\ epc' = "returned"
           ELSE /\ predicted_action' = ActionPrediction(None, 0, None, None, <<>>)
                /\ flow_stack' = from_tracker
                /\ epc' = "loop"
    /\ loop_tracker' = tracker
    /\ UNCHANGED <<tracker, selection, turn_vars, stack_vars>>

\* one pass of the while loop of _select_next_action (750-786)
SelectNextAction ==
    /\ epc = "loop"
    /\ \E generated \in GeneratorOutcomes :
       LET current_flow == FlowStack_top_flow(flow_stack)
           previous_step == FlowStack_top_flow_step(flow_stack)
           wrapped == wrap_up_previous_step(current_flow, previous_step, loop_tracker)
           wrapped_tracker == update_with_events(loop_tracker, wrapped.events)
           next == select_next_step_id(previous_step, wrapped_tracker.slots)
           current_step == flow_step_by_id(current_flow, next.id)
           ran == run_step(current_flow, current_step, wrapped_tracker,
                           advance_top_flow(flow_stack, current_step.id), generated)
           pass == [NoSelection EXCEPT !.passed = TRUE, !.passes = 1 - selection.passes,
                                       !.stack_before = flow_stack,
                                       !.flow_id = current_flow.id,
                                       !.previous_step = previous_step,
                                       !.produced =
                                           IF current_flow.id = None \/ previous_step.id = None
                                           THEN selection.produced
                                           ELSE selection.produced \o wrapped.events]
       IN  IF current_flow.id = None
           THEN /\ predicted_action' = ActionPrediction(ACTION_LISTEN_NAME, 1, None, None, <<>>)
                /\ epc' = "gather"
                /\ selection' = pass
                /\ UNCHANGED <<flow_stack, loop_tracker>>
           ELSE IF previous_step.id = None
           THEN /\ epc' = "raised"
                /\ selection' = [pass EXCEPT !.exc = "FlowException"]
                /\ UNCHANGED <<flow_stack, loop_tracker, predicted_action>>
           ELSE IF wrapped.action_name # None
           THEN /\ predicted_action' = wrapped
                /\ loop_tracker' = wrapped_tracker
                /\ epc' = "gather"
                /\ selection' = pass
                /\ UNCHANGED flow_stack
           ELSE IF next.exc # None
           THEN /\ predicted_action' = wrapped
                /\ loop_tracker' = wrapped_tracker
                /\ epc' = "raised"
                /\ selection' = [pass EXCEPT !.slot_values = wrapped_tracker.slots,
                                             !.selected = TRUE, !.exc = next.exc]
                /\ UNCHANGED flow_stack
           ELSE IF current_step.id = None
           THEN /\ predicted_action' = wrapped
                /\ loop_tracker' = wrapped_tracker
                /\ epc' = "loop"
                /\ selection' = [pass EXCEPT !.slot_values = wrapped_tracker.slots,
                                             !.selected = TRUE, !.next_id = next.id]
                /\ UNCHANGED flow_stack
           ELSE /\ predicted_action' = ran.prediction
                /\ loop_tracker' = update_with_events(wrapped_tracker, ran.prediction.events)
                /\ flow_stack' = ran.flow_stack
                /\ epc' = IF ran.exc # None THEN "raised"
                          ELSE IF ran.prediction.score = 0 THEN "loop" ELSE "gather"
                /\ selection' = [pass EXCEPT !.slot_values = wrapped_tracker.slots,
                                             !.selected = TRUE, !.next_id = next.id,
                                             !.ran = TRUE, !.current_step = current_step,
                                             !.exc = ran.exc,
                                             !.produced = @ \o ran.prediction.events,
                                             !.generated =
                                                 IF current_step.type = "generate_response"
                                                 THEN generated ELSE @]
    /\ UNCHANGED <<tracker, turn_vars, stack_vars>>

\* variant: the stack is persisted only when it has another number of frames
persist_flow_stack_on_resize(prediction_events, stored, frame_list) ==
    IF Len(FlowStack_as_dict(FlowStack_from_dict(stored).frames)) # Len(FlowStack_as_dict(frame_list))
    THEN Append(prediction_events, SlotSet(FLOW_STACK_SLOT, FlowStack_as_dict(frame_list)))
    ELSE prediction_events

\* lines 672-681 of advance_flows: the stack is persisted when its serialized
\* form differs from the serialized form of the stack read from the tracker
persist_flow_stack(prediction_events, stored, frame_list) ==
    IF FlowStack_as_dict(FlowStack_from_dict(stored).frames) # FlowStack_as_dict(frame_list)
    THEN Append(prediction_events, SlotSet(FLOW_STACK_SLOT, FlowStack_as_dict(frame_list)))
    ELSE prediction_events

\* lines 788-790 and the return of advance_flows (672-682)
ReturnPrediction ==
    /\ epc = "gather"
    /\ LET gathered == gathered_events(loop_tracker.events, Len(tracker.events))
       IN  predicted_action' =
               [predicted_action EXCEPT !.events =
                   persist_flow_stack(gathered, tracker.flow_stack_slot, flow_stack)]
    /\ epc' = "returned"
    /\ UNCHANGED <<tracker, flow_stack, loop_tracker, selection, turn_vars, stack_vars>>

(***************************************************************************)
(* The trackers the policy is called with.                                 *)
(***************************************************************************)
PolicyStacks ==
    LET at(flow_id, step_id, frame_type) == FlowStackFrame(flow_id, step_id, frame_type)
        bottoms == {at("transfer", START_STEP, "REGULAR"), at("transfer", "ask_x", "REGULAR"),
                    at("transfer", "ask_y", "REGULAR"), at("transfer", "act", "REGULAR"),
                    at("transfer", END_STEP, "REGULAR"), at("help", START_STEP, "REGULAR"),
                    at("help", "say", "REGULAR"), at("gone", START_STEP, "REGULAR"),
                    at("transfer", "old_step", "REGULAR"), at("reply", START_STEP, "REGULAR"),
                    at("reply", "mark", "REGULAR"), at("handoff", START_STEP, "REGULAR"),
                    at("handoff", "to_reply", "REGULAR")}
        tops == {at("help", "say", "INTERRUPT"), at("help", "say", "CORRECTION"),
                 at("help", "say", "LINK"), at("help", START_STEP, "INTERRUPT")}
        below == {at("transfer", "ask_y", "REGULAR"), at("transfer", "act", "REGULAR"),
                  at("help", "say", "REGULAR")}
    IN  {<<>>} \cup {<<b>> : b \in bottoms} \cup {<<t>> : t \in tops}
            \cup {<<b, t>> : b \in below, t \in tops}
            \cup {<<at("help", "say", "REGULAR"), at("transfer", "ask_y", "INTERRUPT")>>}

PolicyMessages ==
    {[intent |-> None, entities |-> {}], [intent |-> "help", entities |-> {}],
     [intent |-> "inform", entities |-> {}], [intent |-> CORRECTION_INTENT, entities |-> {}],
     [intent |-> CANCEL_FLOW_INTENT, entities |-> {}],
     [intent |-> CANCEL_FLOW_INTENT, entities |-> {"all"}]}

PolicyTrackers ==
    {tr \in [slots : [SlotNames -> {None, "v1"}] \cup {[x |-> None, y |-> "v2"]},
             latest_message : PolicyMessages,
             latest_action_name : {ACTION_LISTEN_NAME, "question_x", "question_y"},
             active_loop_name : {None, "question_x"},
             is_active_loop_rejected : BOOLEAN,
             flow_stack_slot : {FlowStack_as_dict(st) : st \in PolicyStacks},
             corrected_slots : {<<>>, <<"y">>, <<"y", "x">>},
             events : {<<>>, <<UserUttered>>, <<UserUttered, SlotSet("x", "v1")>>}] :
        /\ tr.latest_message.intent = None <=> tr.events = <<>>
        /\ Len(tr.events) = 2 => tr.slots["x"] = "v1"
        /\ tr.is_active_loop_rejected => tr.active_loop_name # None}

InitExec ==
    /\ TurnIdle
    /\ StackIdle
    /\ tracker \in PolicyTrackers
    /\ flow_stack = <<>>
    /\ loop_tracker = tracker
    /\ predicted_action = ActionPrediction(None, 0, None, None, <<>>)
    /\ epc = "idle"
    /\ selection = NoSelection

NextExec ==
    \/ AdvanceFlows
    \/ SelectNextAction
    \/ ReturnPrediction

SpecExec == InitExec /\ [][NextExec]_vars

\* the calls made right after a listen action with no loop active and no
\* corrected slots: every stack without a frame on the end step (the executor
\* stores none), every value of the slots, with no message or with a message
\* that starts and cancels nothing
LoopTrackers ==
    {tr \in PolicyTrackers :
        /\ \A i \in 1..Len(tr.flow_stack_slot) : tr.flow_stack_slot[i].step_id # END_STEP
        /\ tr.latest_action_name = ACTION_LISTEN_NAME
        /\ tr.active_loop_name = None
        /\ tr.corrected_slots = <<>>
        /\ tr.latest_message.intent \in {None, "inform"}}

InitLoop ==
    /\ TurnIdle
    /\ StackIdle
    /\ tracker \in LoopTrackers
    /\ flow_stack = <<>>
    /\ loop_tracker = tracker
    /\ predicted_action = ActionPrediction(None, 0, None, None, <<>>)
    /\ epc = "idle"
    /\ selection = NoSelection

\* the loop is sequential code: a pass that can run does run
SpecExecFair == InitLoop /\ [][NextExec]_vars /\ WF_vars(NextExec)

Returned == epc \in {"returned", "raised"}

\* C12: when _select_next_step_id is called on a step with conditional links,
\* it returns the target of the first if-link, in the declared order, whose
\* condition holds for the slot values of the tracker; if no condition holds,
\* the target of the else-link; if no condition holds and there is no
\* else-link, it raises ValueError.
C12_FirstMatchingLink ==
    LET links == selection.previous_step.links
        holds(i) == /\ links[i].type = "if"
                    /\ selection.slot_values[links[i].condition.slot] = links[i].condition.value
    IN  (selection.selected /\ \E i \in 1..Len(links) : links[i].type \in {"if", "else"}) =>
            \/ \E i \in 1..Len(links) :
                  /\ holds(i)
                  /\ \A j \in 1..(i - 1) : ~holds(j)
                  /\ selection.next_id = links[i].target
                  /\ selection.exc \in {None, "FlowException"}
            \/ /\ \A i \in 1..Len(links) : ~holds(i)
               /\ \E i \in 1..Len(links) :
                     /\ links[i].type = "else"
                     /\ selection.next_id = links[i].target
               /\ selection.exc \in {None, "FlowException"}
            \/ /\ \A i \in 1..Len(links) : ~holds(i) /\ links[i].type # "else"
               /\ selection.next_id = None
               /\ selection.exc = "ValueError"
               /\ epc = "raised"

\* both if-links of ask_y hold and the first one is taken
C12_Witness ==
    /\ selection.selected
    /\ selection.previous_step.id = "ask_y"
    /\ selection.slot_values["x"] = "v1"
    /\ selection.slot_values["y"] = "v1"
    /\ selection.next_id = "act"

TriggeredFlows ==
    {i \in 1..Len(PolicyFlows) :
        /\ tracker.latest_action_name = "action_listen"
        /\ tracker.latest_message.intent # None
        /\ PolicyFlows[i].steps[1].type = "user_message"
        /\ \E c \in {PolicyFlows[i].steps[1].trigger_conditions[k] :
                        k \in 1..Len(PolicyFlows[i].steps[1].trigger_conditions)} :
              c.intent = tracker.latest_message.intent
                  /\ c.entities \subseteq tracker.latest_message.entities}

\* the latest message after a listen action carries the cancel intent
CancelRequested ==
    /\ tracker.latest_action_name = "action_listen"
    /\ tracker.latest_message.intent = "cancel_flow"

\* the stack the tracker holds when the policy is called
StoredStack == FlowStack_from_dict(tracker.flow_stack_slot).frames

\* C14: when the latest message triggers the first step of a flow right after
\* a listen action, advance_flows returns the start action of that flow with
\* score 1.0, without events and with the stack as the tracker holds it,
\* whatever the stack holds and also when the message carries the cancel
\* intent; the loop that advances the stack runs only when no flow is
\* startable and no cancellation is requested.
C14_AutoStartFirst ==
    epc # "idle" =>
        /\ TriggeredFlows # {} =>
              /\ epc = "returned"
              /\ \E i \in TriggeredFlows :
                    predicted_action =
                        ActionPrediction("flow_" \o PolicyFlows[i].id, 1, None, None, <<>>)
              /\ flow_stack = StoredStack
              /\ selection = NoSelection
        /\ (selection # NoSelection \/ epc = "loop") =>
              TriggeredFlows = {} /\ ~CancelRequested

C14_Witness ==
    /\ epc = "returned"
    /\ CancelRequested
    /\ Len(StoredStack) = 2
    /\ flow_stack = StoredStack
    /\ predicted_action.action_name = "flow_help"

\* C15: when no flow is startable, the stack is not empty and the latest
\* message after a listen action carries the cancel intent, advance_flows pops
\* the top frame and no other one, and returns the action of the cancellation
\* pattern with score 1.0, the flow id of the popped frame as metadata and one
\* event setting the stack slot to the remaining stack.
C15_CancelPopsTop ==
    (epc # "idle" /\ TriggeredFlows = {} /\ StoredStack # <<>> /\ CancelRequested) =>
        /\ epc = "returned"
        /\ Len(flow_stack) = Len(StoredStack) - 1
        /\ \A i \in 1..Len(flow_stack) : flow_stack[i] = StoredStack[i]
        /\ predicted_action.action_name = "flow_pattern_cancel_flow"
        /\ predicted_action.score = 1
        /\ predicted_action.metadata =
              [key |-> CANCELLED_FLOW_SLOT, value |-> StoredStack[Len(StoredStack)].flow_id]
        /\ predicted_action.events =
              <<SlotSet(FLOW_STACK_SLOT, FlowStack_as_dict(flow_stack))>>

C15_Witness ==
    /\ epc = "returned"
    /\ TriggeredFlows = {}
    /\ CancelRequested
    /\ Len(StoredStack) = 2
    /\ Len(flow_stack) = 1
    /\ predicted_action.action_name = "flow_pattern_cancel_flow"

\* the last pass of the loop found no flow for the top of the stack: the stack
\* was empty or its top frame names a flow that is not in the library
PassFoundNoFlow ==
    /\ selection # NoSelection
    /\ \/ selection.stack_before = <<>>
       \/ selection.stack_before[Len(selection.stack_before)].flow_id
              \notin {PolicyFlows[i].id : i \in 1..Len(PolicyFlows)}

StoredTopStep ==
    IF TriggeredFlows = {} /\ ~CancelRequested THEN FlowStack_top_flow_step(StoredStack)
    ELSE NoFlowStep

\* the latest message after a listen action is a correction
CorrectionRequested ==
    /\ tracker.latest_action_name = "action_listen"
    /\ tracker.latest_message.intent = "correction"

EndStepRan(frame_type) ==
    /\ selection.ran
    /\ selection.exc = None
    /\ selection.current_step.id = END_STEP
    /\ selection.stack_before[Len(selection.stack_before)].frame_type = frame_type

\* the frames of the stack before the pass without the top one
BelowTop == SubSeq(selection.stack_before, 1, Len(selection.stack_before) - 1)

\* C18: when the end step of a frame of type interrupt is run, exactly that
\* frame is popped and the prediction is the action of the continue-interrupted
\* pattern with score 1.0 whose previous-flow metadata is the name of the flow
\* of the frame now on top, or its id if that flow has no name.
C18_InterruptEnds ==
    EndStepRan("INTERRUPT") =>
        /\ flow_stack = BelowTop
        /\ epc \in {"gather", "returned"}
        /\ predicted_action.action_name = "flow_pattern_continue_interrupted"
        /\ predicted_action.score = 1
        /\ predicted_action.metadata.key = PREVIOUS_FLOW_SLOT
        /\ \A i \in 1..Len(PolicyFlows) :
              (flow_stack # <<>> /\ PolicyFlows[i].id = flow_stack[Len(flow_stack)].flow_id) =>
                  predicted_action.metadata.value =
                      IF PolicyFlows[i].name = None THEN PolicyFlows[i].id
                      ELSE PolicyFlows[i].name

\* the flow now on top has no name and the metadata holds its id
C18_Witness ==
    /\ EndStepRan("INTERRUPT")
    /\ Len(flow_stack) = 1
    /\ flow_stack[1].flow_id = "help"
    /\ predicted_action.metadata.value = "help"
    /\ epc = "returned"

C20_LoopTerminates == <>Returned

\* C21: the event list returned by _select_next_action is exactly the
\* in-order concatenation of the events produced by every wrap-up and every
\* step run of that call, with no event from before the call and none lost
\* (advance_flows then appends the event of a changed stack); the events are
\* accumulated on a copy, so the caller's tracker is never modified.
C21_GatheredEvents ==
    /\ [](epc = "returned" /\ selection.passed =>
            predicted_action.events =
                selection.produced \o
                    (IF FlowStack_as_dict(StoredStack) # FlowStack_as_dict(flow_stack)
                     THEN <<SlotSet(FLOW_STACK_SLOT, FlowStack_as_dict(flow_stack))>>
                     ELSE <<>>))
    /\ [][tracker' = tracker]_vars

\* a call on a tracker that already holds events returned after three passes:
\* two step runs that each set a slot, then the step that predicts the action
C21_Witness ==
    /\ epc = "returned"
    /\ selection.ran
    /\ selection.current_step.type = "generate_response"
    /\ tracker.events # <<>>
    /\ selection.produced = <<SlotSet("x", "v1"), SlotSet("y", "v2")>>
    /\ loop_tracker.events = tracker.events \o selection.produced
    /\ Len(predicted_action.events) = 3

\* C22: every prediction returned by advance_flows has confidence 1.0 or
\* 0.0, and the confidence is 1.0 exactly when an action name is present.
C22_ScoreMatchesAction ==
    epc = "returned" =>
        /\ predicted_action.score \in {0, 1}
        /\ predicted_action.score = 1 <=> predicted_action.action_name # None

\* the loop returned the action of an action step after a pass that predicted
\* nothing
C22_Witness ==
    /\ epc = "returned"
    /\ selection.ran
    /\ selection.current_step.type = "action"
    /\ Len(selection.stack_before) < Len(StoredStack)
    /\ predicted_action.action_name = "utter_done"
    /\ predicted_action.score = 1

(***************************************************************************)
(* Specification of one CorrectSlots command: execute_commands at the      *)
(* point where the cleaned and validated list holds one CorrectSlots       *)
(* command (the clean-up leaves at most one), on every stack of            *)
(* CorrectStacks whose flows are in the library, every value of the slots  *)
(* and every command of up to MaxCorrected corrected slots.                *)
(***************************************************************************)
MaxCorrected == 2   \* most corrected slots in one command

WithC == [f \in UserFlowIds \cup {"C"} \cup PatternFlowIds |-> "h1"]

CorrectLibraries == {FullLibrary, WithC}

CorrectCommands ==
    {CorrectSlotsCommand(entries) :
        entries \in {e \in SeqsUpTo({CorrectedSlot(n, v, 0) : n \in SlotNames, v \in Values},
                                     MaxCorrected) : e # <<>>}}

CorrectStacks ==
    LET correction(frame_id, flow_id) ==
            CorrectionPatternFlowStackFrame(frame_id, START_STEP, FALSE, PendingX, flow_id,
                                            "ask_x")
    IN  {<<>>,
         <<ChitChatStackFrame(1)>>,
         <<UserFlowStackFrame(1, "A", "act", "regular")>>,
         <<UserFlowStackFrame(1, "A", "ask_x", "regular"),
           CollectInformationPatternFlowStackFrame(2)>>,
         <<UserFlowStackFrame(1, "B", "ask_y", "regular"),
           CollectInformationPatternFlowStackFrame(2)>>,
         <<UserFlowStackFrame(1, "C", START_STEP, "regular")>>,
         <<UserFlowStackFrame(1, "C", "ask_y", "regular"),
           CollectInformationPatternFlowStackFrame(2)>>,
         <<UserFlowStackFrame(1, "C", "act", "regular")>>,
         <<UserFlowStackFrame(1, "A", "act", "regular"),
           UserFlowStackFrame(2, "B", START_STEP, "interrupt")>>,
         <<UserFlowStackFrame(1, "A", "act", "regular"), correction(2, "A")>>,
         <<UserFlowStackFrame(1, "C", "act", "regular"), correction(2, "C"),
           CollectInformationPatternFlowStackFrame(3)>>,
         <<UserFlowStackFrame(1, "A", "act", "regular"), correction(2, "A"),
           ChitChatStackFrame(3)>>,
         <<UserFlowStackFrame(1, "A", "act", "regular"), ChitChatStackFrame(2),
           correction(3, "A"), ChitChatStackFrame(4),
           CollectInformationPatternFlowStackFrame(5)>>,
         <<correction(1, None)>>,
         <<PatternFlowStackFrame(FLOW_PATTERN_CANCEL_ID, 1, START_STEP)>>}

InitCorrect ==
    /\ StackIdle
    /\ PolicyIdle
    /\ all_flows \in CorrectLibraries
    /\ flow_hashes = all_flows
    /\ stack \in CorrectStacks
    /\ \A i \in 1..Len(stack) : stack[i].type = "flow" => stack[i].flow_id \in DOMAIN all_flows
    /\ slots \in [SlotNames -> {None, "v1"}]
    /\ \E command \in CorrectCommands :
          /\ commands = <<command>>
          /\ clean_commands = <<command>>
          /\ reversed_commands = <<command>>
    /\ pc = "run"
    /\ slots_so_far = {}
    /\ idx = 1
    /\ original_tracker = Tracker(stack, slots, flow_hashes)
    /\ overridden = FALSE
    /\ events = <<>>
    /\ executed = <<>>
    /\ returned = <<>>
    /\ error = None

NextCorrect ==
    \/ RunCommand
    \/ Return

SpecCorrect == InitCorrect /\ [][NextCorrect]_vars

\* the CorrectSlots command of the turn has been run
CorrectSlotsRan == executed # <<>> /\ isinstance(executed[1], "CorrectSlots")

\* the stack, the slots, the user flow frame and the top flow frame the command ran on
StackBefore == original_tracker.stack
SlotsBefore == original_tracker.slots
UserFrameBefore == top_user_flow_frame(StackBefore)
TopFlowFrameBefore == top_flow_frame(StackBefore)

\* the corrected slots of the command whose value differs from the slot's value
ProposedSlots == corrected_slots_dict(executed[1], SlotsBefore)

\* the positions of the frames the command has put on the stack
NewFramePositions ==
    {i \in 1..Len(stack) : \A j \in 1..Len(StackBefore) : StackBefore[j].frame_id # stack[i].frame_id}

\* every collect step, over all flows, whose slot is proposed asks before filling
EveryProposedCollectAsksFirst ==
    \A f \in DOMAIN all_flows :
        \A i \in 1..Len(FlowSteps(f)) :
            (FlowSteps(f)[i].kind = "collect" /\ FlowSteps(f)[i].collect \in DOMAIN ProposedSlots)
                => FlowSteps(f)[i].ask_before_filling

\* C23: are_all_slots_reset_only returns true if and only if every collect
\* step, over all flows, whose slot is in the proposed correction set has
\* ask_before_filling set to true. Its result is the is_reset_only of the
\* correction frame made for a user flow frame, and no frame is made only
\* when it is false.
C23_ResetOnlyIffAllAskFirst ==
    (CorrectSlotsRan /\ UserFrameBefore # NoFrame) =>
        /\ \A i \in NewFramePositions : stack[i].is_reset_only = EveryProposedCollectAsksFirst
        /\ NewFramePositions = {} => ~EveryProposedCollectAsksFirst

\* y is corrected in flow A, whose steps do not collect y: the only collect
\* step of y, in flow B, asks before filling, and the frame is reset-only
C23_Witness ==
    /\ CorrectSlotsRan
    /\ UserFrameBefore.flow_id = "A"
    /\ "C" \notin DOMAIN all_flows
    /\ DOMAIN ProposedSlots = {"y"}
    /\ \E i \in NewFramePositions : stack[i].is_reset_only

\* the positions, in the active flow, of the collect steps asked up to the
\* current step whose slot is proposed and was filled before
RewindCandidates ==
    LET steps == FlowSteps(UserFrameBefore.flow_id)
        asked == previous_collect_steps(UserFrameBefore.flow_id, UserFrameBefore.step_id)
    IN  {i \in 1..Len(steps) :
            /\ \E k \in 1..Len(asked) : asked[k] = steps[i]
            /\ steps[i].collect \in DOMAIN ProposedSlots
            /\ SlotsBefore[steps[i].collect] # None}

\* C24: find_earliest_updated_collect_info returns, among the collect steps
\* executed before the current step of the active flow whose slot is both in
\* the proposed correction set and was previously filled in this
\* conversation, the one that was executed earliest; it returns nothing when
\* no such step exists. Its result is the reset step of the correction frame.
C24_EarliestUpdatedCollect ==
    (CorrectSlotsRan /\ UserFrameBefore # NoFrame) =>
        /\ \A i \in NewFramePositions :
              /\ stack[i].reset_flow_id = UserFrameBefore.flow_id
              /\ stack[i].reset_step_id =
                    IF RewindCandidates = {} THEN None
                    ELSE FlowSteps(UserFrameBefore.flow_id)[
                             CHOOSE c \in RewindCandidates :
                                 \A d \in RewindCandidates : c <= d].id
        /\ NewFramePositions = {} => RewindCandidates = {}

\* flow C has asked for x and then for y, both were filled and both are
\* corrected, y named first: the rewind target is ask_x
C24_Witness ==
    /\ CorrectSlotsRan
    /\ UserFrameBefore.flow_id = "C"
    /\ UserFrameBefore.step_id = "act"
    /\ Len(executed[1].corrected_slots) = 2
    /\ executed[1].corrected_slots[1].name = "y"
    /\ RewindCandidates = {2, 3}
    /\ \E i \in NewFramePositions : stack[i].reset_step_id = "ask_x"

\* C25: running a CorrectSlots command returns no events and leaves the
\* dialogue stack unchanged when there is no flow frame on the stack, and
\* when there is a user flow frame but neither a rewind target is found nor
\* are all corrected slots reset-only.
C25_CorrectionSkipped ==
    (/\ CorrectSlotsRan
     /\ \/ TopFlowFrameBefore = NoFrame
        \/ /\ UserFrameBefore # NoFrame
           /\ RewindCandidates = {}
           /\ ~EveryProposedCollectAsksFirst) =>
        /\ events = <<>>
        /\ stack = StackBefore

\* x is corrected in flow A before it was ever filled, and ask_x does not ask
\* before filling
C25_Witness ==
    /\ CorrectSlotsRan
    /\ pc = "done"
    /\ UserFrameBefore.flow_id = "A"
    /\ UserFrameBefore.step_id = "act"
    /\ SlotsBefore["x"] = None
    /\ DOMAIN ProposedSlots = {"x"}
    /\ returned = <<>>
    /\ stack = StackBefore

\* the position of the top flow frame on the stack the command ran on
TopFlowFramePosition ==
    CHOOSE i \in 1..Len(StackBefore) : StackBefore[i].frame_id = TopFlowFrameBefore.frame_id

\* C26: when a CorrectSlots command is run while the top flow frame is
\* already a correction-pattern frame, the new correction frame is inserted
\* directly below that frame (at its index), the step pointer of that prior
\* correction frame and of every flow frame above it is set to continue at
\* END, and all frames below keep their content and order; when the top flow
\* frame is not a correction frame the new frame is pushed on top and no
\* existing frame changes. In both cases the stack grows by exactly one frame.
C26_CorrectionFramePlacement ==
    (CorrectSlotsRan /\ stack # StackBefore) =>
        LET n == Len(StackBefore)
            at == TopFlowFramePosition
            ended(frame) == IF IsBaseFlowStackFrame(frame)
                            THEN [frame EXCEPT !.step_id = ContinueAtEnd] ELSE frame
        IN  /\ Len(stack) = n + 1
            /\ IF TopFlowFrameBefore.flow_id = FLOW_PATTERN_CORRECTION_ID
               THEN /\ NewFramePositions = {at}
                    /\ IsCorrectionFrame(stack[at])
                    /\ stack[at].step_id = START_STEP
                    /\ stack[at + 1] = [StackBefore[at] EXCEPT !.step_id = ContinueAtEnd]
                    /\ \A j \in (at + 1)..n : stack[j + 1] = ended(StackBefore[j])
                    /\ \A j \in 1..(at - 1) : stack[j] = StackBefore[j]
               ELSE /\ NewFramePositions = {n + 1}
                    /\ IsCorrectionFrame(stack[n + 1])
                    /\ \A j \in 1..n : stack[j] = StackBefore[j]

\* a second correction arrives while a correction frame is the top flow frame,
\* with a chitchat frame below it and a chitchat and a collect-information
\* frame above it
C26_Witness ==
    /\ CorrectSlotsRan
    /\ Len(StackBefore) = 5
    /\ TopFlowFramePosition = 3
    /\ NewFramePositions = {3}
    /\ stack[4].step_id = ContinueAtEnd
    /\ stack[5] = StackBefore[4]
    /\ stack[6].step_id = ContinueAtEnd
    /\ stack[1].step_id = "act"

(***************************************************************************)
(* Specification of the operations that write step ids: a call of the      *)
(* policy on a stored stack (advance, link push, end pop, correction       *)
(* rewind) or a CorrectSlots command on a dialogue stack (ending a         *)
(* previous correction).                                                   *)
(***************************************************************************)
InitOps == InitExec \/ InitCorrect

\* the policy is called between turns, the command is run within one
NextOps ==
    \/ pc = "idle" /\ NextExec
    \/ pc # "idle" /\ NextCorrect

SpecOps == InitOps /\ [][NextOps]_vars

\* the step id of a frame of the policy's stack names a step of the frame's
\* flow, or is the start or the end id
ExistingPolicyStep(frame) ==
    \/ frame.step_id \in {START_STEP, END_STEP}
    \/ \E i \in 1..Len(flow_by_id(frame.flow_id).steps) :
          flow_by_id(frame.flow_id).steps[i].id = frame.step_id

\* the same for a flow frame of the dialogue stack, where the continue marker
\* is an id as well
ExistingDialogueStep(frame) ==
    \/ frame.step_id \in {START_STEP, END_STEP, ContinueAtEnd}
    \/ \E i \in 1..Len(FlowSteps(frame.flow_id)) : FlowSteps(frame.flow_id)[i].id = frame.step_id

\* C27: after any sequence of executor and command operations (advance, link
\* push, end pop, correction rewind, ending a previous correction), the step
\* id of every frame on the stack refers to a step that exists in the
\* definition of that frame's flow, or is the synthetic START, END or
\* continue marker id: every frame is either as the operations found it or
\* points at such a step, so a stack that starts that way stays that way.
C27_StepIdsExist ==
    /\ epc # "idle" =>
          \A i \in 1..Len(flow_stack) :
              \/ ExistingPolicyStep(flow_stack[i])
              \/ i <= Len(StoredStack) /\ flow_stack[i] = StoredStack[i]
    /\ pc \in {"run", "done"} =>
          \A i \in 1..Len(stack) :
              \/ ~IsBaseFlowStackFrame(stack[i])
              \/ ExistingDialogueStep(stack[i])
              \/ \E j \in 1..Len(StackBefore) : stack[i] = StackBefore[j]

\* a link step has pushed the frame of flow help, which was advanced to its
\* first step, above the frame left on the link step
C27_Witness ==
    /\ epc = "loop"
    /\ Len(flow_stack) = Len(StoredStack) + 1
    /\ flow_stack[Len(flow_stack)] = FlowStackFrame("help", "greet", "LINK")
    /\ flow_stack[Len(flow_stack) - 1].step_id = "to_help"
    /\ StoredStack[Len(StoredStack)].step_id # "to_help"
    /\ \A i \in 1..Len(flow_stack) : ExistingPolicyStep(flow_stack[i])

\* the pass of the loop found a frame on top of the stack that cannot be
\* resolved: its flow is not in the library, or its step is not in the flow
PassOnUnresolvedTop ==
    /\ selection.passed
    /\ selection.stack_before # <<>>
    /\ LET top_frame == selection.stack_before[Len(selection.stack_before)]
       IN  \/ flow_by_id(top_frame.flow_id).id = None
           \/ ~ExistingPolicyStep(top_frame)

\* C28: when the stack is non-empty and its top frame cannot be resolved,
\* because its flow id names no flow of the library or its step id names no
\* step of that flow, the turn fails with an error; the executor never
\* silently returns an action (such as listen) for such a stack.
C28_UnresolvedTopRaises ==
    PassOnUnresolvedTop =>
        /\ selection.exc # None
        /\ epc = "raised"

\* the pass ran a GenerateResponse step and the text generator raised or
\* returned nothing
GenerationFailed ==
    /\ selection.ran
    /\ selection.current_step.type = "generate_response"
    /\ \/ selection.generated.exc # None
       \/ selection.generated.text = None

\* C29: when the external text generator throws or returns nothing while a
\* GenerateResponse step is run, the failure is caught at the step, the step
\* yields no action (confidence 0.0, no send-text action) and the turn
\* continues with the next step instead of failing.
C29_GenerationFailureCaught ==
    GenerationFailed =>
        /\ selection.exc = None
        /\ epc # "raised"
        /\ predicted_action.action_name # ACTION_SEND_TEXT
        /\ epc = "loop" => predicted_action.score = 0

\* the type strings a persisted frame can carry: the frame types of the
\* dialogue stack
PersistedFrameTypes == {"regular", "link", "interrupt", "resume", "correction", "call"}

\* C30: the frame-type parser maps each persisted type string ("regular",
\* "link", "interrupt", "call", and the other declared types) to the frame
\* type of that name, maps a missing type (None) to regular, and raises an
\* error for every other string; a frame record without a frame_type field is
\* therefore read as a regular frame.
C30_FrameTypeParsed ==
    deserialized # <<>> =>
        LET data == serialized[1]
            typ(d) == IF "frame_type" \in DOMAIN d THEN d.frame_type ELSE None
            flow_frames == {i \in 1..Len(data) : "type" \notin DOMAIN data[i]}
        IN  IF \A i \in flow_frames : typ(data[i]) \in PersistedFrameTypes \cup {None}
            THEN /\ deserialized[1].exc = None
                 /\ \A i \in flow_frames :
                       StackFrameType_value(deserialized[1].frames[i].frame_type) =
                           IF typ(data[i]) = None THEN "regular" ELSE typ(data[i])
            ELSE deserialized[1].exc # None

\* C31: running a Collect step produces no action when the slot already holds
\* a value different from its initial value and the step is not forced to
\* re-ask (skip_if_filled); otherwise it emits the action question_<slot>
\* with confidence 1.0, preceded by an event resetting the slot to its initial
\* value exactly when the slot's value differs from the initial value.
C31_CollectStepRun ==
    (selection.ran /\ selection.current_step.type = "question" /\ epc \in {"loop", "gather"}) =>
        LET step == selection.current_step
            filled == selection.slot_values[step.question] # None
        IN  IF filled /\ step.skip_if_filled
            THEN /\ predicted_action.action_name = None
                 /\ predicted_action.score = 0
                 /\ predicted_action.events = <<>>
                 /\ epc = "loop"
            ELSE /\ predicted_action.action_name = "question_" \o step.question
                 /\ predicted_action.score = 1
                 /\ predicted_action.events =
                       IF filled THEN <<SlotSet(step.question, None)>> ELSE <<>>
                 /\ epc = "gather"

\* ask_x, which always asks, is run while x holds a value: the slot is reset
\* and the question is asked
C31_Witness ==
    /\ epc = "gather"
    /\ selection.ran
    /\ selection.current_step.id = "ask_x"
    /\ selection.slot_values["x"] = "v1"
    /\ predicted_action.action_name = "question_x"
    /\ predicted_action.events = <<SlotSet("x", None)>>

\* a pass of the loop has just run a link step
LinkStepRan == selection.ran /\ selection.current_step.type = "link"

\* C32: running a Link step pushes exactly one new frame of type link, for
\* the linked flow at its START step, on top of the stack, produces no action,
\* leaves the linking frame pointing at the Link step, and emits a
\* deactivate-loop event exactly when a loop is active.
C32_LinkStepRun ==
    [][(epc = "loop" /\ LinkStepRan') =>
          LET step == selection'.current_step
              n == Len(flow_stack)
          IN  /\ Len(flow_stack') = n + 1
              /\ flow_stack'[n + 1] = FlowStackFrame(step.link, START_STEP, "LINK")
              /\ flow_stack'[n] = [flow_stack[n] EXCEPT !.step_id = step.id]
              /\ SubSeq(flow_stack', 1, n - 1) = SubSeq(flow_stack, 1, n - 1)
              /\ predicted_action'.action_name = None
              /\ predicted_action'.score = 0
              /\ predicted_action'.events =
                    IF loop_tracker.active_loop_name # None THEN <<ActiveLoop>> ELSE <<>>
              /\ epc' = "loop"]_vars

\* a link step was run while a loop was active: the frame of the linked flow
\* is on top, the linking frame below it points at the link step, and the
\* loop is deactivated
C32_Witness ==
    /\ LinkStepRan
    /\ epc = "loop"
    /\ Len(flow_stack) >= 2
    /\ flow_stack[Len(flow_stack)] =
           FlowStackFrame(selection.current_step.link, START_STEP, "LINK")
    /\ flow_stack[Len(flow_stack) - 1].step_id = selection.current_step.id
    /\ predicted_action.events = <<ActiveLoop>>
    /\ loop_tracker.active_loop_name = None

\* a pass of the loop has just run the end step of a flow, whatever the type
\* of the frame it popped; the events of the step are still the prediction's
AnyEndStepRan ==
    /\ selection.ran
    /\ selection.exc = None
    /\ selection.current_step.id = END_STEP
    /\ epc \in {"loop", "gather"}

\* the question steps of the flow that has just ended, by scope
EndingFlowQuestions(scopes) ==
    LET steps == flow_by_id(selection.flow_id).steps
    IN  {i \in 1..Len(steps) : steps[i].type = "question" /\ steps[i].scope \in scopes}

\* C33: whenever an End step is run, whatever the type of the popped frame,
\* the events of that step contain one slot-set per flow-scoped Collect step
\* of the ending flow, setting that step's slot to its initial value, and
\* contain no reset for Collect steps that are not flow-scoped.
C33_EndResetsFlowScopedSlots ==
    AnyEndStepRan =>
        LET steps == flow_by_id(selection.flow_id).steps
            evs == predicted_action.events
            scoped == EndingFlowQuestions({"flow"})
            others == EndingFlowQuestions({None, "session"})
            resets(slot) == {k \in 1..Len(evs) : evs[k] = SlotSet(slot, None)}
        IN  /\ Len(evs) = Cardinality(scoped)
            /\ \A i \in scoped :
                   Cardinality(resets(steps[i].question)) =
                       Cardinality({j \in scoped : steps[j].question = steps[i].question})
            /\ \A i \in others :
                   (\A j \in scoped : steps[j].question # steps[i].question) =>
                       \A k \in 1..Len(evs) : ~(IsSlotSet(evs[k]) /\ evs[k].key = steps[i].question)

\* "handoff" ends while x, asked with session scope, and y, asked with flow
\* scope, both hold a value: only y is reset
C33_Witness ==
    /\ AnyEndStepRan
    /\ selection.flow_id = "handoff"
    /\ selection.slot_values["x"] = "v1"
    /\ selection.slot_values["y"] = "v1"
    /\ predicted_action.events = <<SlotSet("y", None)>>

\* the stack slot of the tracker after the events were applied to it: the
\* last slot-set of the stack slot, or the stored value when there is none
persisted_stack_after(stored, evs) ==
    LET sets == {k \in 1..Len(evs) : IsSlotSet(evs[k]) /\ evs[k].key = FLOW_STACK_SLOT}
    IN  IF sets = {} THEN stored
        ELSE evs[CHOOSE k \in sets : \A other \in sets : other <= k].value

\* advance_flows has returned from the branch that advances the stack
AdvancedAndReturned == epc = "returned" /\ selection.passed

\* C34: after advance_flows has advanced the stack, its returned events
\* contain a stack slot-set carrying the executor's final stack if and only if
\* that stack differs, by serialized form, from the stack persisted in the
\* tracker; hence after the returned events are applied the persisted stack
\* equals the executor's stack.
C34_StackPersistedIffChanged ==
    AdvancedAndReturned =>
        LET evs == predicted_action.events
            carries == \E k \in 1..Len(evs) :
                          /\ IsSlotSet(evs[k])
                          /\ evs[k].key = FLOW_STACK_SLOT
                          /\ evs[k].value = FlowStack_as_dict(flow_stack)
            after == persisted_stack_after(tracker.flow_stack_slot, evs)
        IN  /\ carries <=> FlowStack_as_dict(StoredStack) # FlowStack_as_dict(flow_stack)
            /\ FlowStack_from_dict(after).frames = flow_stack

\* the call moved the top frame without changing the height of the stack, and
\* the returned events persist the moved stack
C34_Witness ==
    /\ AdvancedAndReturned
    /\ Len(flow_stack) = Len(StoredStack)
    /\ flow_stack # StoredStack
    /\ predicted_action.events # <<>>
    /\ predicted_action.events[Len(predicted_action.events)].key = FLOW_STACK_SLOT
    /\ predicted_action.events[Len(predicted_action.events)].value =
           FlowStack_as_dict(flow_stack)

\* a pass of the loop starts with the top frame on a collect step of its flow
\* while the latest message, received after a listen action, is a correction
CorrectionAtCollectStep ==
    /\ epc = "loop"
    /\ FlowStack_top_flow_step(flow_stack).type = "question"
    /\ loop_tracker.latest_action_name = ACTION_LISTEN_NAME
    /\ loop_tracker.latest_message.intent = CORRECTION_INTENT

\* the positions of the slot-sets after the latest user message
SlotSetsSinceMessage(evs) ==
    {k \in 1..Len(evs) : /\ IsSlotSet(evs[k])
                         /\ \E u \in 1..k : evs[u] = UserUttered
                         /\ \A u \in k..Len(evs) : evs[u] # UserUttered}

\* C35: when the top frame points at a Collect step and the latest message
\* after a listen action carries the correction intent, the wrap-up phase
\* immediately returns the correction-pattern action with confidence 1.0,
\* carrying as corrected slots the slot-sets that occurred after the latest
\* user message, and does not advance or otherwise change the stack.
C35_CorrectionAtWrapUp ==
    [][CorrectionAtCollectStep =>
          LET corrected == predicted_action'.metadata.value
              since == SlotSetsSinceMessage(loop_tracker.events)
          IN  /\ epc' = "gather"
              /\ predicted_action'.action_name = FLOW_PREFIX \o "pattern_correction"
              /\ predicted_action'.score = 1
              /\ predicted_action'.metadata.key = CORRECTED_SLOTS_SLOT
              /\ Len(corrected) = Cardinality(since)
              /\ \A k \in since : \E c \in 1..Len(corrected) :
                     corrected[c] = loop_tracker.events[k]
              /\ flow_stack' = flow_stack
              /\ ~selection'.selected]_vars

\* the correction pattern was returned from a collect step with the slot-set
\* of x that followed the user's correction, and the stack is as it was stored
C35_Witness ==
    /\ epc = "gather"
    /\ selection.passed
    /\ selection.previous_step.type = "question"
    /\ predicted_action.action_name = FLOW_PREFIX \o "pattern_correction"
    /\ predicted_action.metadata.value = <<SlotSet("x", "v1")>>
    /\ tracker.latest_message.intent = CORRECTION_INTENT
    /\ flow_stack = StoredStack

\* the corrected slots of the command that was run, and the positions of those
\* whose proposed value differs from the value the slot had
CorrectedEntries == executed[1].corrected_slots

DifferingEntries ==
    {i \in 1..Len(CorrectedEntries) :
        SlotsBefore[CorrectedEntries[i].name] # CorrectedEntries[i].value}

\* C36 as stated: the result of corrected_slots_dict contains no slot whose
\* mapped value equals the slot's current value, and contains every corrected
\* slot whose proposed value differs from the current value, mapped to that
\* proposed value.
C36_EveryDifferingValueProposed ==
    CorrectSlotsRan =>
        /\ \A n \in DOMAIN ProposedSlots : ProposedSlots[n] # SlotsBefore[n]
        /\ \A i \in DifferingEntries :
               /\ CorrectedEntries[i].name \in DOMAIN ProposedSlots
               /\ ProposedSlots[CorrectedEntries[i].name] = CorrectedEntries[i].value

\* C36: the result of corrected_slots_dict contains no slot whose mapped value
\* equals the slot's current value, and contains exactly the slots that some
\* corrected entry proposes with a value different from the current one, each
\* mapped to the value of the last such entry of the command.
C36_LastDifferingValueProposed ==
    CorrectSlotsRan =>
        /\ \A n \in DOMAIN ProposedSlots : ProposedSlots[n] # SlotsBefore[n]
        /\ DOMAIN ProposedSlots = {CorrectedEntries[i].name : i \in DifferingEntries}
        /\ \A i \in DifferingEntries :
               (\A j \in DifferingEntries :
                    CorrectedEntries[j].name = CorrectedEntries[i].name => j <= i)
                   => ProposedSlots[CorrectedEntries[i].name] = CorrectedEntries[i].value

\* a command corrects x twice, to two values that both differ from the value
\* of x: x is proposed once, with the later value
C36_Witness ==
    /\ CorrectSlotsRan
    /\ Len(CorrectedEntries) = 2
    /\ CorrectedEntries[1].name = "x"
    /\ CorrectedEntries[2].name = "x"
    /\ CorrectedEntries[1].value # CorrectedEntries[2].value
    /\ DifferingEntries = {1, 2}
    /\ DOMAIN ProposedSlots = {"x"}
    /\ ProposedSlots["x"] = CorrectedEntries[2].value

\* one pass of the loop, as the frames see it: the height of the stack
\* changes by at most one, a frame that is still below the top afterwards is
\* unchanged, and a frame that is or becomes the top keeps its flow and type
SuspendedFramesKeptByStep ==
    LET n == Len(flow_stack)
        m == Len(flow_stack')
    IN  /\ m \in {n - 1, n, n + 1}
        /\ \A i \in 1..(n - 1) :
               /\ i <= m
               /\ i < m => flow_stack'[i] = flow_stack[i]
               /\ i = m => /\ flow_stack'[i].flow_id = flow_stack[i].flow_id
                           /\ flow_stack'[i].frame_type = flow_stack[i].frame_type
        /\ (m >= n /\ n > 0) => /\ flow_stack'[n].flow_id = flow_stack[n].flow_id
                                /\ flow_stack'[n].frame_type = flow_stack[n].frame_type

\* C37: during advance_flows no frame below the top of the stack is ever
\* modified: each loop iteration only changes the step pointer of the current
\* top frame, pushes one frame on top, or pops the top frame, so suspended
\* frames keep their flow id, step id and frame type until they become the
\* top frame.
C37_SuspendedFramesKept ==
    [][/\ (epc = "loop" \/ epc = "gather") => SuspendedFramesKeptByStep
       /\ (epc = "idle") =>
             (\/ flow_stack' = StoredStack
              \/ flow_stack' = SubSeq(StoredStack, 1, Len(StoredStack) - 1))]_vars

\* an interrupting flow has linked to another flow over a suspended frame:
\* three frames, the suspended one as it was stored
C37_Witness ==
    /\ LinkStepRan
    /\ Len(flow_stack) = 3
    /\ Len(StoredStack) = 2
    /\ flow_stack[1] = StoredStack[1]
    /\ flow_stack[2].step_id # StoredStack[2].step_id

(***************************************************************************)
(* The calls of predict_action_probabilities for one user message. The     *)
(* policy is called, the predicted action is executed, and the policy is   *)
(* called again until it predicts action_listen or nothing. Executing an   *)
(* action is not this policy's code: the tracker records the action as its *)
(* latest action and takes the events of the prediction; what the action   *)
(* itself does to the stack is left open, a start action may or may not    *)
(* have put the frame of its flow on the stack.                            *)
(***************************************************************************)
MaxExecuted == 3   \* most actions executed for one user message

ActionExecuted(action_name) == [type |-> "action", key |-> action_name, value |-> None, id |-> 0]

\* the names of the actions executed since the tracker was drawn
ExecutedActions(tr) ==
    {tr.events[k].key : k \in {i \in 1..Len(tr.events) : tr.events[i].type = "action"}}

\* the frames an executed action may have put on the stack
FramesOfAction(action_name, dialogue_stack) ==
    {<<>>} \cup {<<FlowStackFrame(PolicyFlows[i].id, START_STEP,
                                  IF dialogue_stack = <<>> THEN "REGULAR" ELSE "INTERRUPT")>> :
                    i \in {j \in 1..Len(PolicyFlows) :
                             action_name = FLOW_PREFIX \o PolicyFlows[j].id}}

ExecuteAction ==
    /\ epc = "returned"
    /\ pc = "idle"
    /\ predicted_action.action_name \notin {None, ACTION_LISTEN_NAME}
    /\ Cardinality({i \in 1..Len(tracker.events) : tracker.events[i].type = "action"})
           < MaxExecuted
    /\ LET evs == predicted_action.events
           persisted == FlowStack_from_dict(
                            persisted_stack_after(tracker.flow_stack_slot, evs)).frames
           others == SelectSeq(evs, LAMBDA e : ~(IsSlotSet(e) /\ e.key = FLOW_STACK_SLOT))
       IN  \E pushed \in FramesOfAction(predicted_action.action_name, persisted) :
              tracker' = [update_with_events(tracker, others) EXCEPT
                             !.flow_stack_slot = FlowStack_as_dict(persisted \o pushed),
                             !.latest_action_name = predicted_action.action_name,
                             !.events = Append(@, ActionExecuted(predicted_action.action_name))]
    /\ loop_tracker' = tracker'
    /\ flow_stack' = <<>>
    /\ predicted_action' = ActionPrediction(None, 0, None, None, <<>>)
    /\ epc' = "idle"
    /\ selection' = NoSelection
    /\ UNCHANGED <<turn_vars, stack_vars>>

NextCalls ==
    \/ NextExec
    \/ ExecuteAction

\* the first call is made on a tracker without a pending correction
InitCalls ==
    /\ InitExec
    /\ tracker.corrected_slots = <<>>

SpecCalls == InitCalls /\ [][NextCalls]_vars

\* advance_flows has returned the start action of a flow or the cancel action
StartOrCancelReturned ==
    /\ epc = "returned"
    /\ ~selection.passed
    /\ predicted_action.action_name # None

\* the actions that start a flow or cancel one
StartAndCancelActions ==
    {FLOW_PREFIX \o PolicyFlows[i].id : i \in 1..Len(PolicyFlows)}
        \cup {FLOW_PREFIX \o "pattern_cancel_flow"}

\* C38: a flow is auto-started or cancelled by advance_flows only when there
\* is a latest user message and the latest action is listen; hence after the
\* predicted start or cancel action has been executed, further calls of
\* advance_flows for the same user message never predict a second start or a
\* second cancel.
C38_StartOrCancelOncePerMessage ==
    /\ StartOrCancelReturned =>
           /\ predicted_action.action_name \in StartAndCancelActions
           /\ tracker.latest_message.intent # None
           /\ tracker.latest_action_name = ACTION_LISTEN_NAME
           /\ ExecutedActions(tracker) \cap StartAndCancelActions = {}
    /\ (epc = "returned" /\ selection.passed) =>
           predicted_action.action_name \notin StartAndCancelActions

\* the start action of "help" was executed, and the next call for the same
\* message went on in the started flow instead of starting it again
C38_Witness ==
    /\ epc = "returned"
    /\ tracker.latest_message.intent = "help"
    /\ FLOW_PREFIX \o "help" \in ExecutedActions(tracker)
    /\ tracker.latest_action_name = FLOW_PREFIX \o "help"
    /\ predicted_action.action_name = "utter_help"

(***************************************************************************)
(* Turn after turn: execute_commands is called once per user message on    *)
(* the tracker the turn before left, and between two turns the assistant   *)
(* may be deployed with another flow library. The first turn starts from a *)
(* stored conversation, which may be older than the fingerprint slot or    *)
(* hold a flow that was pushed after the fingerprints were last stored.    *)
(***************************************************************************)
MaxTurnCmds == 1    \* longest raw command list of a turn
MaxTurnStack == 3   \* a conversation goes on while its stack is no deeper

Libraries == {FullLibrary, ChangedB, WithoutB}

TurnsAlphabet == {StartFlowCommand("A"), StartFlowCommand("B"), CancelFlowCommand}

InitTurns ==
    /\ StackIdle
    /\ PolicyIdle
    /\ all_flows \in Libraries
    /\ flow_hashes \in {EmptyDict, FullLibrary, WithoutB}
    /\ stack \in TurnStacks
    /\ slots = NoSlots
    /\ pc = "idle"
    /\ commands = <<>>
    /\ slots_so_far = {}
    /\ clean_commands = <<>>
    /\ reversed_commands = <<>>
    /\ idx = 1
    /\ original_tracker = Tracker(stack, slots, flow_hashes)
    /\ overridden = FALSE
    /\ events = <<>>
    /\ executed = <<>>
    /\ returned = <<>>
    /\ error = None

\* the turn is over and its events are stored; the next message finds the
\* assistant with the same or another library
NextMessage ==
    /\ pc = "done"
    /\ Len(stack) <= MaxTurnStack
    /\ all_flows' \in Libraries
    /\ pc' = "idle"
    /\ commands' = <<>>
    /\ slots_so_far' = {}
    /\ clean_commands' = <<>>
    /\ reversed_commands' = <<>>
    /\ idx' = 1
    /\ original_tracker' = Tracker(stack, slots, flow_hashes)
    /\ overridden' = FALSE
    /\ events' = <<>>
    /\ executed' = <<>>
    /\ returned' = <<>>
    /\ UNCHANGED <<stack, slots, flow_hashes, error>>
    /\ UNCHANGED <<stack_vars, policy_vars>>

NextTurns ==
    \/ \E raw \in SeqsUpTo(TurnsAlphabet, MaxTurnCmds) : ReceiveMessage(raw, {})
    \/ CleanStep
    \/ FindUpdatedFlows
    \/ Validate
    \/ RunCommand
    \/ Return
    \/ NextMessage

SpecTurns == InitTurns /\ [][NextTurns]_vars

\* the flows of the flow frames of the stack the turn started with
FlowsOnStackBefore ==
    {original_tracker.stack[i].flow_id :
        i \in {k \in 1..Len(original_tracker.stack) :
                 IsBaseFlowStackFrame(original_tracker.stack[k])}}

\* the turn has decided which commands it runs
CommandsFixed == pc \in {"validate", "run", "done", "raised"} /\ error # "InvalidFlowIdException"

\* the turn runs HandleCodeChange in place of its commands
ReplacedByHandleCodeChange ==
    overridden \/ (CommandsFixed /\ reversed_commands = <<HandleCodeChangeCommand>>)

\* C39: after a turn in which execute_commands persisted the current flow
\* fingerprints, a following turn with unchanged flow definitions, in which
\* every flow referenced on the stack still exists, does not replace its
\* commands by HandleCodeChange; and a flow on the stack for which no
\* fingerprint has been stored yet never triggers the override.
C39_NoOverrideWithoutChange ==
    /\ pc = "done" => flow_hashes = calculate_flow_fingerprints(all_flows)
    /\ (/\ original_tracker.flow_hashes = calculate_flow_fingerprints(all_flows)
        /\ FlowsOnStackBefore \subseteq flow_ids(all_flows))
           => ~ReplacedByHandleCodeChange
    /\ ReplacedByHandleCodeChange =>
           \E f \in FlowsOnStackBefore :
              \/ f \notin flow_ids(all_flows)
              \/ /\ f \in DOMAIN original_tracker.flow_hashes
                 /\ all_flows[f] # original_tracker.flow_hashes[f]

\* a second turn of a conversation whose stack holds flow B, started by the
\* turn before, which also stored the fingerprints: the library is the same
\* and the commands of the turn are run
C39_Witness ==
    /\ pc = "done"
    /\ \E i \in 1..Len(original_tracker.stack) :
          /\ original_tracker.stack[i].flow_id = "B"
          /\ original_tracker.stack[i].step_id = START_STEP
          /\ original_tracker.stack[i].frame_id > 2
    /\ original_tracker.flow_hashes = calculate_flow_fingerprints(all_flows)
    /\ executed # <<>>
    /\ ~overridden

(***************************************************************************)
(* Flow steps and their definitions (flow_step.py). A definition is the    *)
(* dict read from YAML: a function whose domain is the keys it has. A      *)
(* value that may be a text, a list or None is tagged by the one key of a  *)
(* record: [str |-> t], [list |-> l] or [none |-> TRUE]. A step is a       *)
(* record of its class and fields; idx is -1 until a flow numbers its      *)
(* steps. A dict of a set_slots list keeps the order of its keys: each key *)
(* maps to its position and its value. The description, the metadata, the  *)
(* LLM configuration and the rejections of a step are left out.            *)
(***************************************************************************)
\* dict.get(key, default)
dict_get(d, key, default) == IF key \in DOMAIN d THEN d[key] ELSE default

JsonNone == [none |-> TRUE]
JsonStr(text) == [str |-> text]
JsonList(items) == [list |-> items]

RECURSIVE step_from_json(_)
RECURSIVE step_as_json(_)

\* StepSequence.from_json and as_json: no parsed step is an internal step
StepSequence_from_json(steps_config) ==
    [i \in 1..Len(steps_config) |-> step_from_json(steps_config[i])]

StepSequence_as_json(child_steps) ==
    [i \in 1..Len(child_steps) |-> step_as_json(child_steps[i])]

\* the target of a branch: the id of a step, or a sequence of steps
target_reference_from_json(target_config) ==
    IF "str" \in DOMAIN target_config THEN [str |-> target_config.str]
    ELSE [steps |-> StepSequence_from_json(target_config.list)]

target_reference_as_json(target_reference) ==
    IF "steps" \in DOMAIN target_reference
    THEN JsonList(StepSequence_as_json(target_reference.steps))
    ELSE JsonStr(target_reference.str)

\* BranchBasedLink.from_json with IfFlowLink.from_json and ElseFlowLink.from_json
BranchBasedLink_from_json(link_config) ==
    IF "if" \in DOMAIN link_config
    THEN [cls |-> "IfFlowLink", condition |-> link_config["if"],
          target_reference |-> target_reference_from_json(link_config["then"])]
    ELSE [cls |-> "ElseFlowLink",
          target_reference |-> target_reference_from_json(link_config["else"])]

\* IfFlowLink.as_json, ElseFlowLink.as_json and StaticFlowLink.as_json
FlowLink_as_json(link) ==
    IF link.cls = "IfFlowLink"
    THEN [if |-> link.condition, then |-> target_reference_as_json(link.target_reference)]
    ELSE IF link.cls = "ElseFlowLink"
    THEN [else |-> target_reference_as_json(link.target_reference)]
    ELSE JsonStr(link.target_id)

\* FlowLinks.from_json: nothing, one static link, or the non-empty entries of a
\* list as branches
FlowLinks_from_json(flow_links_config) ==
    IF \/ "none" \in DOMAIN flow_links_config
       \/ "str" \in DOMAIN flow_links_config /\ flow_links_config.str = ""
       \/ "list" \in DOMAIN flow_links_config /\ flow_links_config.list = <<>>
    THEN <<>>
    ELSE IF "str" \in DOMAIN flow_links_config
    THEN << [cls |-> "StaticFlowLink", target_id |-> flow_links_config.str] >>
    ELSE LET given == SelectSeq(flow_links_config.list, LAMBDA c : DOMAIN c # {})
         IN  [i \in 1..Len(given) |-> BranchBasedLink_from_json(given[i])]

\* FlowLinks.as_json
FlowLinks_as_json(links) ==
    IF links = <<>> THEN JsonNone
    ELSE IF Len(links) = 1 /\ links[1].cls = "StaticFlowLink" THEN FlowLink_as_json(links[1])
    ELSE JsonList([i \in 1..Len(links) |-> FlowLink_as_json(links[i])])

\* FlowStep._from_json
FlowStep_from_json(flow_step_config) ==
    [idx |-> -1,
     custom_id |-> dict_get(flow_step_config, "id", None),
     next |-> FlowLinks_from_json(dict_get(flow_step_config, "next", JsonList(<<>>)))]

\* UserMessageStep.from_json
UserMessageStep_from_json(flow_step_config) ==
    [cls |-> "UserMessageStep",
     trigger_conditions |->
        IF "intent" \in DOMAIN flow_step_config
        THEN << [intent |-> flow_step_config["intent"],
                 entities |-> dict_get(flow_step_config, "entities", <<>>)] >>
        ELSE IF "or" \in DOMAIN flow_step_config
        THEN [i \in 1..Len(flow_step_config["or"]) |->
                 [intent |-> dict_get(flow_step_config["or"][i], "intent", ""),
                  entities |-> dict_get(flow_step_config["or"][i], "entities", <<>>)]]
        ELSE <<>>]
        @@ FlowStep_from_json(flow_step_config)

\* SetSlotsFlowStep.from_json: one entry per key of each dict of the list
RECURSIVE slots_from_json(_)
slots_from_json(set_slots) ==
    IF set_slots = <<>> THEN <<>>
    ELSE LET keys == DOMAIN Head(set_slots)
             ordered == CHOOSE q \in [1..Cardinality(keys) -> keys] :
                           /\ \A k \in keys : \E i \in DOMAIN q : q[i] = k
                           /\ \A i, j \in DOMAIN q : i < j => Head(set_slots)[q[i]].at < Head(set_slots)[q[j]].at
         IN  [i \in 1..Cardinality(keys) |->
                 [key |-> ordered[i], value |-> Head(set_slots)[ordered[i]].value]]
             \o slots_from_json(Tail(set_slots))

\* step_from_json (83-105): the first key of the list that the definition has
\* decides the class
step_from_json(flow_step_config) ==
    IF "action" \in DOMAIN flow_step_config
    THEN [cls |-> "ActionFlowStep", action |-> dict_get(flow_step_config, "action", "")]
             @@ FlowStep_from_json(flow_step_config)
    ELSE IF "intent" \in DOMAIN flow_step_config
    THEN UserMessageStep_from_json(flow_step_config)
    ELSE IF "collect" \in DOMAIN flow_step_config
    THEN [cls |-> "CollectInformationFlowStep",
          collect |-> flow_step_config["collect"],
          utter |-> dict_get(flow_step_config, "utter",
                             "utter_ask_" \o flow_step_config["collect"]),
          ask_before_filling |-> dict_get(flow_step_config, "ask_before_filling", FALSE),
          reset_after_flow_ends |-> dict_get(flow_step_config, "reset_after_flow_ends", TRUE)]
             @@ FlowStep_from_json(flow_step_config)
    ELSE IF "link" \in DOMAIN flow_step_config
    THEN [cls |-> "LinkFlowStep", link |-> dict_get(flow_step_config, "link", "")]
             @@ FlowStep_from_json(flow_step_config)
    ELSE IF "set_slots" \in DOMAIN flow_step_config
    THEN [cls |-> "SetSlotsFlowStep",
          slots |-> slots_from_json(dict_get(flow_step_config, "set_slots", <<>>))]
             @@ FlowStep_from_json(flow_step_config)
    ELSE IF "generation_prompt" \in DOMAIN flow_step_config
    THEN [cls |-> "GenerateResponseFlowStep",
          generation_prompt |-> dict_get(flow_step_config, "generation_prompt", "")]
             @@ FlowStep_from_json(flow_step_config)
    ELSE [cls |-> "BranchFlowStep"] @@ FlowStep_from_json(flow_step_config)

\* default_id_postfix of each class
default_id_postfix(step) ==
    CASE step.cls = "ActionFlowStep" -> step.action
      [] step.cls = "BranchFlowStep" -> "branch"
      [] step.cls = "LinkFlowStep" -> "link_" \o step.link
      [] step.cls = "UserMessageStep" -> "intent"
      [] step.cls = "GenerateResponseFlowStep" -> "generate"
      [] step.cls = "CollectInformationFlowStep" -> "collect_" \o step.collect
      [] step.cls = "SetSlotsFlowStep" -> "set_slots"

\* FlowStep.id: custom_id or default_id()
FlowStep_id(step) ==
    IF step.custom_id \notin {None, ""} THEN step.custom_id
    ELSE ToString(step.idx) \o "_" \o default_id_postfix(step)

\* FlowStep.as_json
FlowStep_as_json(step) == [next |-> FlowLinks_as_json(step.next), id |-> FlowStep_id(step)]

\* UserMessageStep.as_json
UserMessageStep_as_json(step) ==
    LET conditions == step.trigger_conditions
    IN  (IF Len(conditions) = 1
         THEN [intent |-> conditions[1].intent]
                  @@ (IF conditions[1].entities # <<>>
                      THEN [entities |-> conditions[1].entities] ELSE EmptyDict)
         ELSE IF Len(conditions) > 1
         THEN [or |-> [i \in 1..Len(conditions) |->
                          [intent |-> conditions[i].intent,
                           entities |-> conditions[i].entities]]]
         ELSE EmptyDict)
            @@ FlowStep_as_json(step)

\* as_json of each class
step_as_json(step) ==
    CASE step.cls = "ActionFlowStep" -> [action |-> step.action] @@ FlowStep_as_json(step)
      [] step.cls = "BranchFlowStep" -> FlowStep_as_json(step)
      [] step.cls = "LinkFlowStep" -> [link |-> step.link] @@ FlowStep_as_json(step)
      [] step.cls = "UserMessageStep" -> UserMessageStep_as_json(step)
      [] step.cls = "GenerateResponseFlowStep" ->
            [generation_prompt |-> step.generation_prompt] @@ FlowStep_as_json(step)
      [] step.cls = "CollectInformationFlowStep" ->
            [collect |-> step.collect, utter |-> step.utter,
             ask_before_filling |-> step.ask_before_filling,
             reset_after_flow_ends |-> step.reset_after_flow_ends]
                @@ FlowStep_as_json(step)
      [] step.cls = "SetSlotsFlowStep" ->
            [set_slots |-> [i \in 1..Len(step.slots) |->
                               (step.slots[i].key :> [at |-> 1, value |-> step.slots[i].value])]]
                @@ FlowStep_as_json(step)

(***************************************************************************)
(* Specification of the round trip of a step: a definition is parsed, by   *)
(* step_from_json or, for a user message step, by the from_json of its     *)
(* class; the step is dumped with as_json and the dump is parsed with      *)
(* step_from_json. `serialized` holds the definition and then the dump,    *)
(* `frames` the step and `deserialized` the step parsed from the dump.     *)
(***************************************************************************)
StepIdParts == {EmptyDict, [id |-> "s1"]}

StepNextParts ==
    {EmptyDict,
     [next |-> JsonStr("t")],
     [next |-> JsonList(<< [if |-> "c", then |-> JsonStr("t")], EmptyDict,
                           [else |-> JsonStr("u")] >>)],
     [next |-> JsonList(<< [if |-> "c",
                            then |-> JsonList(<< [action |-> "utter_n"] >>)] >>)]}

StepPayloadParts ==
    {EmptyDict,
     [action |-> "utter_a"],
     [action |-> "utter_a", collect |-> "x"],
     [intent |-> "greet"],
     [intent |-> "greet", entities |-> <<"e">>],
     [or |-> << [intent |-> "greet"], [intent |-> "bye", entities |-> <<"e">>] >>],
     [collect |-> "x"],
     [collect |-> "x", utter |-> "utter_x", ask_before_filling |-> TRUE],
     [link |-> "f"],
     [set_slots |-> << [a |-> [at |-> 1, value |-> "v1"], b |-> [at |-> 2, value |-> "v2"]],
                       [c |-> [at |-> 1, value |-> "v1"]] >>],
     [generation_prompt |-> "p"]}

StepDefinitions ==
    {id_part @@ next_part @@ payload_part :
        id_part \in StepIdParts, next_part \in StepNextParts, payload_part \in StepPayloadParts}

InitSteps ==
    /\ TurnIdle
    /\ PolicyIdle
    /\ frames = <<>>
    /\ serialized \in {<<definition>> : definition \in StepDefinitions}
    /\ deserialized = <<>>

\* StepSequence.from_json reads every step of a flow with step_from_json
ParseDefinition ==
    /\ frames = <<>>
    /\ Len(serialized) = 1
    /\ frames' = <<step_from_json(serialized[1])>>
    /\ UNCHANGED <<serialized, deserialized, turn_vars, policy_vars>>

\* UserMessageStep.from_json reads what it accepts: an intent or a list of
\* alternatives
ParseUserMessage ==
    /\ frames = <<>>
    /\ Len(serialized) = 1
    /\ DOMAIN serialized[1] \cap {"intent", "or"} # {}
    /\ frames' = <<UserMessageStep_from_json(serialized[1])>>
    /\ UNCHANGED <<serialized, deserialized, turn_vars, policy_vars>>

DumpStep ==
    /\ frames # <<>>
    /\ Len(serialized) = 1
    /\ serialized' = Append(serialized, step_as_json(frames[1]))
    /\ UNCHANGED <<frames, deserialized, turn_vars, policy_vars>>

ParseDump ==
    /\ Len(serialized) = 2
    /\ deserialized = <<>>
    /\ deserialized' = <<step_from_json(serialized[2])>>
    /\ UNCHANGED <<frames, serialized, turn_vars, policy_vars>>

NextSteps ==
    \/ ParseDefinition
    \/ ParseUserMessage
    \/ DumpStep
    \/ ParseDump

SpecSteps == InitSteps /\ [][NextSteps]_vars

\* what the round trip is to keep of a step: its class, its id, the payload
\* of its class and its outgoing links, with the steps nested in them
RECURSIVE StepView(_)
StepView(step) ==
    [cls |-> step.cls,
     id |-> FlowStep_id(step),
     payload |->
        CASE step.cls = "ActionFlowStep" -> <<step.action>>
          [] step.cls = "UserMessageStep" -> step.trigger_conditions
          [] step.cls = "CollectInformationFlowStep" -> <<step.collect>>
          [] step.cls = "LinkFlowStep" -> <<step.link>>
          [] step.cls = "SetSlotsFlowStep" -> step.slots
          [] step.cls = "GenerateResponseFlowStep" -> <<step.generation_prompt>>
          [] OTHER -> <<>>,
     next |->
        [i \in 1..Len(step.next) |->
            IF step.next[i].cls = "StaticFlowLink" THEN step.next[i]
            ELSE [cls |-> step.next[i].cls,
                  condition |-> dict_get(step.next[i], "condition", None),
                  target |->
                    IF "steps" \in DOMAIN step.next[i].target_reference
                    THEN <<"steps",
                           [j \in 1..Len(step.next[i].target_reference.steps) |->
                               StepView(step.next[i].target_reference.steps[j])]>>
                    ELSE <<"id", step.next[i].target_reference.str>>]]]

\* the step was read by step_from_json, as the steps of a flow are
ReadByStepFromJson == frames = <<step_from_json(serialized[1])>>

\* the round trip of the steps that step_from_json reads keeps the view
RoundTripOfDispatchedSteps ==
    (deserialized # <<>> /\ ReadByStepFromJson) =>
        StepView(deserialized[1]) = StepView(frames[1])

\* C40: for every flow step that can be parsed from a definition, dumping it
\* with as_json and parsing the dump with step_from_json yields a step of the
\* same variant with the same id, the same variant-specific payload (action,
\* trigger conditions, collected slot, link, slots to set, prompt) and the
\* same outgoing links.
C40_StepRoundTrip ==
    deserialized # <<>> => StepView(deserialized[1]) = StepView(frames[1])

====
